---------------------------- MODULE Spec2Model ----------------------------
(***************************************************************************)
(* Diff & Apply engine of MeshConfigurator: the diff of two configuration  *)
(* snapshots (DeviceWriterCLI._build_diff / _diff_channels), the apply     *)
(* sequence around the external meshtastic CLI (apply_from_models) and the *)
(* UI event handlers that start and stop workers (App in app.py).          *)
(***************************************************************************)
EXTENDS Integers, Sequences, FiniteSets, TLC

---------------------------------------------------------------------------
(* Python values.  Every value is a record of one shape so that values of  *)
(* different Python types can be compared: k is the type, n the number of  *)
(* an int or bool (True is 1, False is 0), s the text of a str.  A text is *)
(* a sequence of tokens: a blank " ", a digit, or a word that no operation *)
(* of the program looks into.                                              *)

None == [k |-> "none", n |-> 0, s |-> <<>>]
PyBool(b) == [k |-> "bool", n |-> IF b THEN 1 ELSE 0, s |-> <<>>]
PyInt(i) == [k |-> "int", n |-> i, s |-> <<>>]
PyStr(chars) == [k |-> "str", n |-> 0, s |-> chars]

True == PyBool(TRUE)
False == PyBool(FALSE)

(* Python's ==: bool is a subclass of int, so True == 1 and False == 0.    *)
PyEq(a, b) ==
  IF a.k \in {"bool", "int"} /\ b.k \in {"bool", "int"} THEN a.n = b.n ELSE a = b

(* dict.get(key): None when the key is missing.                            *)
Get(d, key) == IF key \in DOMAIN d THEN d[key] ELSE None

EmptyDict == [key \in {} |-> None]

(* d.get(key) or {} for a dict of dicts.                                   *)
GetDict(d, key) == IF key \in DOMAIN d THEN d[key] ELSE EmptyDict

(* Truth value of a dict or list: non-empty.                               *)
Truthy(d) == DOMAIN d # {}

(* str.strip(): leading and trailing blanks removed.                       *)
RECURSIVE LStrip(_)
LStrip(chars) ==
  IF chars # <<>> /\ Head(chars) = " " THEN LStrip(Tail(chars)) ELSE chars

RECURSIVE RStrip(_)
RStrip(chars) ==
  IF chars # <<>> /\ chars[Len(chars)] = " "
  THEN RStrip(SubSeq(chars, 1, Len(chars) - 1)) ELSE chars

Strip(chars) == RStrip(LStrip(chars))

DigitChars == <<"0", "1", "2", "3", "4", "5", "6", "7", "8", "9">>

DigitOf(c) == (CHOOSE i \in 1..10 : DigitChars[i] = c) - 1

(* str.isdigit(): non-empty and all characters digits.                     *)
IsDigit(chars) ==
  chars # <<>> /\ \A i \in 1..Len(chars) : \E j \in 1..10 : DigitChars[j] = chars[i]

(* int(s) of a string of digits.                                           *)
RECURSIVE ToInt(_)
ToInt(chars) ==
  IF chars = <<>> THEN 0
  ELSE 10 * ToInt(SubSeq(chars, 1, Len(chars) - 1)) + DigitOf(chars[Len(chars)])

(* str(n) of a non-negative int.                                           *)
RECURSIVE Digits(_)
Digits(i) ==
  IF i < 10 THEN <<DigitChars[i + 1]>> ELSE Digits(i \div 10) \o <<DigitChars[(i % 10) + 1]>>

(* str(v)                                                                  *)
ToStr(v) ==
  CASE v.k = "str" -> v.s
    [] v.k = "int" -> Digits(v.n)
    [] v.k = "bool" -> IF v.n = 1 THEN <<"True">> ELSE <<"False">>
    [] OTHER -> <<"None">>

_lower_bool(v) ==
  IF (v.k \in {"bool", "int"} /\ v.n # 0) \/ (v.k = "str" /\ v.s # <<>>)
  THEN <<"true">> ELSE <<"false">>

(* A normalisation that keeps the blanks of a text.                        *)
_norm_text_unstripped(v) ==
  IF v = None THEN None
  ELSE IF v.k = "str" THEN (IF v.s # <<>> THEN v ELSE None)
  ELSE PyStr(ToStr(v))

_norm_text(v) ==
  IF v = None THEN None
  ELSE IF v.k = "str" THEN (IF Strip(v.s) # <<>> THEN PyStr(Strip(v.s)) ELSE None)
  ELSE PyStr(ToStr(v))

---------------------------------------------------------------------------
(* Field maps of _build_diff: <<model key, CLI key>> in source order.      *)

DEVICE_MAP ==
  <<
    <<"role", "device.role">> >>

LORA_MAP ==
  <<
    <<"region", "lora.region">>, <<"modemPreset", "lora.modem_preset">>,
    <<"channelNum", "lora.channel_num">>, <<"hopLimit", "lora.hop_limit">>,
    <<"txEnabled", "lora.tx_enabled">>, <<"txPower", "lora.tx_power">> >>

POWER_MAP ==
  <<
    <<"lsSecs", "power.ls_secs">>, <<"waitBluetoothSecs", "power.wait_bluetooth_secs">>,
    <<"minWakeSecs", "power.min_wake_secs">> >>

POSITION_MAP ==
  <<
    <<"gpsUpdateInterval", "position.gps_update_interval">>,
    <<"positionBroadcastSmartEnabled", "position.position_broadcast_smart_enabled">>,
    <<"broadcastSmartMinimumDistance", "position.broadcast_smart_minimum_distance">>,
    <<"broadcastSmartMinimumIntervalSecs", "position.broadcast_smart_minimum_interval_secs">>,
    <<"positionBroadcastSecs", "position.position_broadcast_secs">> >>

DISPLAY_MAP ==
  <<
    <<"screenOnSecs", "display.screen_on_secs">>, <<"gpsFormat", "display.gps_format">>,
    <<"autoScreenCarouselSecs", "display.auto_screen_carousel_secs">>,
    <<"units", "display.units">>, <<"oled", "display.oled">>,
    <<"displaymode", "display.displaymode">>, <<"headingBold", "display.heading_bold">>,
    <<"flipScreen", "display.flip_screen">>,
    <<"compassNorthTop", "display.compass_north_top">>,
    <<"wakeOnTapOrMotion", "display.wake_on_tap_or_motion">>,
    <<"compassOrientation", "display.compass_orientation">>,
    <<"use12hClock", "display.use_12h_clock">> >>

BLUETOOTH_MAP ==
  <<
    <<"enabled", "bluetooth.enabled">>, <<"fixedPin", "bluetooth.fixed_pin">>,
    <<"mode", "bluetooth.mode">> >>

NETWORK_MAP ==
  <<
    <<"ntpServer", "network.ntp_server">>, <<"wifiEnabled", "network.wifi_enabled">>,
    <<"wifiSsid", "network.wifi_ssid">>, <<"wifiPsk", "network.wifi_psk">>,
    <<"ethEnabled", "network.eth_enabled">>, <<"rsyslogServer", "network.rsyslog_server">> >>

MODULE_MAPS == <<
  <<"mqtt", <<
    <<"enabled", "mqtt.enabled">>, <<"address", "mqtt.address">>,
    <<"username", "mqtt.username">>, <<"password", "mqtt.password">>, <<"root", "mqtt.root">>,
    <<"json_enabled", "mqtt.json_enabled">>, <<"tls_enabled", "mqtt.tls_enabled">>,
    <<"proxy_to_client_enabled", "mqtt.proxy_to_client_enabled">>,
    <<"map_reporting_enabled", "mqtt.map_reporting_enabled">> >>>>,
  <<"serial", <<
    <<"enabled", "serial.enabled">>, <<"echo", "serial.echo">>, <<"rxd", "serial.rxd">>,
    <<"txd", "serial.txd">>, <<"baud", "serial.baud">>, <<"timeout", "serial.timeout">>,
    <<"mode", "serial.mode">>,
    <<"override_console_serial_port", "serial.override_console_serial_port">> >>>>,
  <<"store_forward", <<
    <<"enabled", "store_forward.enabled">>, <<"heartbeat", "store_forward.heartbeat">>,
    <<"records", "store_forward.records">>,
    <<"history_return_max", "store_forward.history_return_max">>,
    <<"history_return_window", "store_forward.history_return_window">>,
    <<"is_server", "store_forward.is_server">> >>>>,
  <<"range_test", <<
    <<"enabled", "range_test.enabled">>, <<"sender", "range_test.sender">>,
    <<"save", "range_test.save">> >>>>,
  <<"telemetry", <<
    <<"device_update_interval", "telemetry.device_update_interval">>,
    <<"environment_update_interval", "telemetry.environment_update_interval">>,
    <<"environment_measurement_enabled", "telemetry.environment_measurement_enabled">>,
    <<"environment_screen_enabled", "telemetry.environment_screen_enabled">>,
    <<"environment_display_fahrenheit", "telemetry.environment_display_fahrenheit">>,
    <<"air_quality_enabled", "telemetry.air_quality_enabled">>,
    <<"air_quality_interval", "telemetry.air_quality_interval">>,
    <<"power_measurement_enabled", "telemetry.power_measurement_enabled">>,
    <<"power_update_interval", "telemetry.power_update_interval">>,
    <<"power_screen_enabled", "telemetry.power_screen_enabled">>,
    <<"health_measurement_enabled", "telemetry.health_measurement_enabled">>,
    <<"health_update_interval", "telemetry.health_update_interval">>,
    <<"health_screen_enabled", "telemetry.health_screen_enabled">> >>>>,
  <<"canned_message", <<
    <<"enabled", "canned_message.enabled">>,
    <<"allow_input_source", "canned_message.allow_input_source">>,
    <<"send_bell", "canned_message.send_bell">> >>>>,
  <<"audio", <<
    <<"codec2_enabled", "audio.codec2_enabled">>, <<"ptt_pin", "audio.ptt_pin">>,
    <<"bitrate", "audio.bitrate">>, <<"i2s_ws", "audio.i2s_ws">>, <<"i2s_sd", "audio.i2s_sd">>,
    <<"i2s_din", "audio.i2s_din">>, <<"i2s_sck", "audio.i2s_sck">> >>>>,
  <<"remote_hardware", <<
    <<"enabled", "remote_hardware.enabled">> >>>>,
  <<"neighbor_info", <<
    <<"enabled", "neighbor_info.enabled">>,
    <<"update_interval", "neighbor_info.update_interval">>,
    <<"transmit_over_lora", "neighbor_info.transmit_over_lora">> >>>>,
  <<"ambient_lighting", <<
    <<"led_state", "ambient_lighting.led_state">>, <<"current", "ambient_lighting.current">>,
    <<"red", "ambient_lighting.red">>, <<"green", "ambient_lighting.green">>,
    <<"blue", "ambient_lighting.blue">> >>>>,
  <<"detection_sensor", <<
    <<"enabled", "detection_sensor.enabled">>,
    <<"minimum_broadcast_secs", "detection_sensor.minimum_broadcast_secs">>,
    <<"detection_trigger_type", "detection_sensor.detection_trigger_type">>,
    <<"state_broadcast_secs", "detection_sensor.state_broadcast_secs">>,
    <<"send_bell", "detection_sensor.send_bell">>, <<"name", "detection_sensor.name">>,
    <<"monitor_pin", "detection_sensor.monitor_pin">>,
    <<"use_pullup", "detection_sensor.use_pullup">> >>>>,
  <<"paxcounter", <<
    <<"enabled", "paxcounter.enabled">>,
    <<"paxcounter_update_interval", "paxcounter.paxcounter_update_interval">> >>>> >>

CH_FIELDS ==
  << <<"uplink_enabled", "uplink_enabled">>, <<"downlink_enabled", "downlink_enabled">>,
     <<"position_precision", "module_settings.position_precision">> >>

(* Defaults a UI widget injects when no value was set.                     *)
suppress_if_none_defaults ==
  [uplink_enabled |-> False, downlink_enabled |-> False, position_precision |-> PyInt(0)]

(* Insertion order of an upsert's fields dict.                             *)
CH_FIELD_ORDER ==
  <<"psk", "name", "uplink_enabled", "downlink_enabled", "module_settings.position_precision">>

---------------------------------------------------------------------------
(* The diff.  A snapshot is the model_dump() of a DeviceModel: a record of *)
(* section dicts (a missing key reads as None, as dict.get does; a section *)
(* that is None reads as the empty dict), the list MeshChannels of channel *)
(* dicts and the dict ModuleConfig of module dicts.                        *)

(* A comparison that does not skip an edited value of None.                *)
sec_changed_none_written(o_sec, e_sec, mapping) ==
  {i \in 1..Len(mapping) :
     LET ov == Get(o_sec, mapping[i][1])
         ev == Get(e_sec, mapping[i][1])
     IN  ~PyEq(ov, ev)}

(* A comparison that takes every edited value that is set.                 *)
sec_changed_equal_written(o_sec, e_sec, mapping) ==
  {i \in 1..Len(mapping) : Get(e_sec, mapping[i][1]) # None}

(* The <<model key, CLI key>> pairs of a map whose edited value is set and *)
(* differs from the original.                                              *)
sec_changed(o_sec, e_sec, mapping) ==
  {i \in 1..Len(mapping) :
     LET ov == Get(o_sec, mapping[i][1])
         ev == Get(e_sec, mapping[i][1])
     IN  ev # None /\ ~PyEq(ov, ev)}

sec_diff(o_sec, e_sec, mapping) ==
  LET changed == sec_changed(o_sec, e_sec, mapping)
  IN  [cli_key \in {mapping[i][2] : i \in changed} |->
         Get(e_sec, mapping[CHOOSE i \in changed : mapping[i][2] = cli_key][1])]

(* bluetooth.fixed_pin: an empty string is dropped, digits become an int.  *)
fix_fixed_pin(bt) ==
  LET bt_key == "bluetooth.fixed_pin"
  IN  IF bt_key \in DOMAIN bt /\ bt[bt_key].k = "str"
      THEN LET s == Strip(bt[bt_key].s)
           IN  IF s = <<>> THEN [key \in DOMAIN bt \ {bt_key} |-> bt[key]]
               ELSE IF IsDigit(s) THEN [bt EXCEPT ![bt_key] = PyInt(ToInt(s))]
               ELSE bt
      ELSE bt

(* _norm of the module diff: a blank string is None.                       *)
_norm(v) ==
  IF v.k = "str" THEN (IF Strip(v.s) # <<>> THEN PyStr(Strip(v.s)) ELSE None) ELSE v

(* A module diff without the suppression of a False whose original is      *)
(* absent.                                                                 *)
module_written_false_default(o_sec, e_sec, model_key) ==
  LET ovn == _norm(Get(o_sec, model_key))
      evn == _norm(Get(e_sec, model_key))
  IN  evn # None /\ ~PyEq(ovn, evn)

(* Whether module field model_key of one module is written.                *)
module_written(o_sec, e_sec, model_key) ==
  LET ov == Get(o_sec, model_key)
      ev == Get(e_sec, model_key)
      ovn == _norm(ov)
      evn == _norm(ev)
  IN  /\ evn # None
      /\ ~(evn.k = "bool" /\ ov = None /\ evn = False)
      /\ ~PyEq(ovn, evn)

modules_diff(o_mc, e_mc) ==
  LET o_sec(m) == GetDict(o_mc, MODULE_MAPS[m][1])
      e_sec(m) == GetDict(e_mc, MODULE_MAPS[m][1])
      written ==
        UNION {{<<m, i>> : i \in {j \in 1..Len(MODULE_MAPS[m][2]) :
                                    module_written(o_sec(m), e_sec(m), MODULE_MAPS[m][2][j][1])}} :
               m \in 1..Len(MODULE_MAPS)}
      cli(p) == MODULE_MAPS[p[1]][2][p[2]][2]
  IN  [cli_key \in {cli(p) : p \in written} |->
         LET p == CHOOSE q \in written : cli(q) = cli_key
         IN  _norm(Get(e_sec(p[1]), MODULE_MAPS[p[1]][2][p[2]][1]))]

owner_diff(o_user, e_user) ==
  LET long_o == Get(o_user, "longName")
      long_e == Get(e_user, "longName")
      short_o == Get(o_user, "shortName")
      short_e == Get(e_user, "shortName")
      keys == {key \in {"owner_long"} : long_e # None /\ ~PyEq(long_e, long_o)}
              \cup {key \in {"owner_short"} : short_e # None /\ ~PyEq(short_e, short_o)}
  IN  [key \in keys |-> IF key = "owner_long" THEN long_e ELSE short_e]

---------------------------------------------------------------------------
(* _diff_channels                                                          *)

(* A sort in ascending order in the place of the descending one.           *)
RECURSIVE SortedDesc_ascending(_)
SortedDesc_ascending(S) ==
  IF S = {} THEN <<>>
  ELSE LET m == CHOOSE x \in S : \A y \in S : x <= y IN <<m>> \o SortedDesc_ascending(S \ {m})

RECURSIVE SortedDesc(_)
SortedDesc(S) ==
  IF S = {} THEN <<>>
  ELSE LET m == CHOOSE x \in S : \A y \in S : y <= x IN <<m>> \o SortedDesc(S \ {m})

(* A sort of the upserts in descending order.                              *)
RECURSIVE SortedAsc_descending(_)
SortedAsc_descending(S) ==
  IF S = {} THEN <<>>
  ELSE LET m == CHOOSE x \in S : \A y \in S : y <= x
       IN  <<m>> \o SortedAsc_descending(S \ {m})

RECURSIVE SortedAsc(_)
SortedAsc(S) ==
  IF S = {} THEN <<>>
  ELSE LET m == CHOOSE x \in S : \A y \in S : x <= y IN <<m>> \o SortedAsc(S \ {m})

ChIndex(c) == c["index"].n

(* {c["index"]: c for c in list}: the last channel of an index wins.       *)
by_idx(list) ==
  [idx \in {ChIndex(list[i]) : i \in DOMAIN list} |->
     list[CHOOSE i \in DOMAIN list :
            ChIndex(list[i]) = idx /\ \A j \in DOMAIN list : ChIndex(list[j]) = idx => j <= i]]

(* The fields of one edited channel without the suppression of defaults.   *)
channel_fields_defaults_written(orig_ch, ed_ch) ==
  LET psk_o == _norm_text(Get(orig_ch, "psk"))
      psk_e == _norm_text(Get(ed_ch, "psk"))
      name_o == Get(orig_ch, "name")
      name_e == Get(ed_ch, "name")
      other == {i \in 1..Len(CH_FIELDS) :
                  LET val_o == Get(orig_ch, CH_FIELDS[i][1])
                      val_e == Get(ed_ch, CH_FIELDS[i][1])
                  IN  val_e # None /\ ~PyEq(val_o, val_e)}
      keys == {key \in {"psk"} : ~PyEq(psk_o, psk_e)}
              \cup {key \in {"name"} : name_e # None /\ ~PyEq(name_e, name_o)}
              \cup {CH_FIELDS[i][2] : i \in other}
  IN  [key \in keys |->
         CASE key = "psk" -> (IF psk_e = None THEN PyStr(<<"default">>) ELSE psk_e)
           [] key = "name" -> name_e
           [] OTHER -> Get(ed_ch, CH_FIELDS[CHOOSE i \in other : CH_FIELDS[i][2] = key][1])]

(* The fields dict of one edited channel against its original (the empty   *)
(* dict for a new index).                                                  *)
channel_fields(orig_ch, ed_ch) ==
  LET psk_o == _norm_text(Get(orig_ch, "psk"))
      psk_e == _norm_text(Get(ed_ch, "psk"))
      name_o == Get(orig_ch, "name")
      name_e == Get(ed_ch, "name")
      other == {i \in 1..Len(CH_FIELDS) :
                  LET val_o == Get(orig_ch, CH_FIELDS[i][1])
                      val_e == Get(ed_ch, CH_FIELDS[i][1])
                  IN  /\ val_e # None
                      /\ ~(val_o = None /\ PyEq(val_e, suppress_if_none_defaults[CH_FIELDS[i][1]]))
                      /\ ~PyEq(val_o, val_e)}
      keys == {key \in {"psk"} : ~PyEq(psk_o, psk_e)}
              \cup {key \in {"name"} : name_e # None /\ ~PyEq(name_e, name_o)}
              \cup {CH_FIELDS[i][2] : i \in other}
  IN  [key \in keys |->
         CASE key = "psk" -> (IF psk_e = None THEN PyStr(<<"default">>) ELSE psk_e)
           [] key = "name" -> name_e
           [] OTHER -> Get(ed_ch, CH_FIELDS[CHOOSE i \in other : CH_FIELDS[i][2] = key][1])]

_diff_channels(orig, edit) ==
  LET by_idx_o == by_idx(orig)
      by_idx_e == by_idx(edit)
      deletes == {idx \in DOMAIN by_idx_o : idx # 0 /\ idx \notin DOMAIN by_idx_e}
      fields(idx) == channel_fields(GetDict(by_idx_o, idx), by_idx_e[idx])
      order == SortedAsc({idx \in DOMAIN by_idx_e : Truthy(fields(idx))})
  IN  [deletes |-> SortedDesc(deletes),
       upserts |-> [i \in 1..Len(order) |-> [index |-> order[i], fields |-> fields(order[i])]]]

---------------------------------------------------------------------------
(* _build_diff                                                             *)

_build_diff(o, e) ==
  [device |-> sec_diff(o.Device, e.Device, DEVICE_MAP),
   owner |-> owner_diff(o.UserInfo, e.UserInfo),
   lora |-> sec_diff(o.Lora, e.Lora, LORA_MAP),
   power |-> sec_diff(o.Power, e.Power, POWER_MAP),
   position |-> sec_diff(o.Position, e.Position, POSITION_MAP),
   display |-> sec_diff(o.Display, e.Display, DISPLAY_MAP),
   bluetooth |-> fix_fixed_pin(sec_diff(o.BlueTooth, e.BlueTooth, BLUETOOTH_MAP)),
   network |-> sec_diff(o.Network, e.Network, NETWORK_MAP),
   channels |-> _diff_channels(o.MeshChannels, e.MeshChannels),
   modules |-> modules_diff(o.ModuleConfig, e.ModuleConfig)]
---------------------------------------------------------------------------
(* Section executors: the argument list of an invocation and the section   *)
(* result made of its return code.  An argument is a text.                 *)

(* Python's order of the CLI keys: sorted(changes.keys()) is this sequence *)
(* restricted to the keys of changes.                                      *)
KEY_ORDER ==
  <<
    "ambient_lighting.blue", "ambient_lighting.current", "ambient_lighting.green",
    "ambient_lighting.led_state", "ambient_lighting.red", "audio.bitrate",
    "audio.codec2_enabled", "audio.i2s_din", "audio.i2s_sck", "audio.i2s_sd", "audio.i2s_ws",
    "audio.ptt_pin", "bluetooth.enabled", "bluetooth.fixed_pin", "bluetooth.mode",
    "canned_message.allow_input_source", "canned_message.enabled", "canned_message.send_bell",
    "detection_sensor.detection_trigger_type", "detection_sensor.enabled",
    "detection_sensor.minimum_broadcast_secs", "detection_sensor.monitor_pin",
    "detection_sensor.name", "detection_sensor.send_bell",
    "detection_sensor.state_broadcast_secs", "detection_sensor.use_pullup", "device.role",
    "display.auto_screen_carousel_secs", "display.compass_north_top",
    "display.compass_orientation", "display.displaymode", "display.flip_screen",
    "display.gps_format", "display.heading_bold", "display.oled", "display.screen_on_secs",
    "display.units", "display.use_12h_clock", "display.wake_on_tap_or_motion",
    "lora.channel_num", "lora.hop_limit", "lora.modem_preset", "lora.region",
    "lora.tx_enabled", "lora.tx_power", "mqtt.address", "mqtt.enabled", "mqtt.json_enabled",
    "mqtt.map_reporting_enabled", "mqtt.password", "mqtt.proxy_to_client_enabled", "mqtt.root",
    "mqtt.tls_enabled", "mqtt.username", "neighbor_info.enabled",
    "neighbor_info.transmit_over_lora", "neighbor_info.update_interval", "network.eth_enabled",
    "network.ntp_server", "network.rsyslog_server", "network.wifi_enabled", "network.wifi_psk",
    "network.wifi_ssid", "paxcounter.enabled", "paxcounter.paxcounter_update_interval",
    "position.broadcast_smart_minimum_distance",
    "position.broadcast_smart_minimum_interval_secs", "position.gps_update_interval",
    "position.position_broadcast_secs", "position.position_broadcast_smart_enabled",
    "power.ls_secs", "power.min_wake_secs", "power.wait_bluetooth_secs", "range_test.enabled",
    "range_test.save", "range_test.sender", "remote_hardware.enabled", "serial.baud",
    "serial.echo", "serial.enabled", "serial.mode", "serial.override_console_serial_port",
    "serial.rxd", "serial.timeout", "serial.txd", "store_forward.enabled",
    "store_forward.heartbeat", "store_forward.history_return_max",
    "store_forward.history_return_window", "store_forward.is_server", "store_forward.records",
    "telemetry.air_quality_enabled", "telemetry.air_quality_interval",
    "telemetry.device_update_interval", "telemetry.environment_display_fahrenheit",
    "telemetry.environment_measurement_enabled", "telemetry.environment_screen_enabled",
    "telemetry.environment_update_interval", "telemetry.health_measurement_enabled",
    "telemetry.health_screen_enabled", "telemetry.health_update_interval",
    "telemetry.power_measurement_enabled", "telemetry.power_screen_enabled",
    "telemetry.power_update_interval" >>

(* The keys in the reverse of Python's order.                              *)
keys_descending(changes) ==
  LET asc == SelectSeq(KEY_ORDER, LAMBDA key : key \in DOMAIN changes)
  IN  [i \in 1..Len(asc) |-> asc[Len(asc) + 1 - i]]

sorted_keys(changes) == SelectSeq(KEY_ORDER, LAMBDA key : key \in DOMAIN changes)

MODULE_BOOL_KEYS ==
  {
     "mqtt.enabled", "mqtt.json_enabled", "mqtt.tls_enabled", "mqtt.proxy_to_client_enabled",
     "mqtt.map_reporting_enabled", "serial.enabled", "serial.echo",
     "serial.override_console_serial_port", "store_forward.enabled", "store_forward.heartbeat",
     "store_forward.is_server", "range_test.enabled", "range_test.save",
     "telemetry.environment_measurement_enabled", "telemetry.environment_screen_enabled",
     "telemetry.environment_display_fahrenheit", "telemetry.air_quality_enabled",
     "telemetry.power_measurement_enabled", "telemetry.power_screen_enabled",
     "telemetry.health_measurement_enabled", "telemetry.health_screen_enabled",
     "canned_message.enabled", "canned_message.send_bell", "audio.codec2_enabled",
     "remote_hardware.enabled", "neighbor_info.enabled", "neighbor_info.transmit_over_lora",
     "ambient_lighting.led_state", "detection_sensor.enabled", "detection_sensor.send_bell",
     "detection_sensor.use_pullup", "paxcounter.enabled" }

bool_keys(section) ==
  CASE section = "lora" -> {"lora.tx_enabled"}
    [] section = "position" -> {"position.position_broadcast_smart_enabled"}
    [] section = "display" -> {"display.heading_bold", "display.flip_screen",
                               "display.compass_north_top", "display.wake_on_tap_or_motion",
                               "display.use_12h_clock"}
    [] section = "bluetooth" -> {"bluetooth.enabled"}
    [] section = "network" -> {"network.wifi_enabled", "network.eth_enabled"}
    [] section = "modules" -> MODULE_BOOL_KEYS
    [] OTHER -> {}

RECURSIVE set_args(_, _, _)
set_args(keys, changes, bools) ==
  IF keys = <<>> THEN <<>>
  ELSE LET key == Head(keys)
           v == changes[key]
           val == IF key \in bools \/ v.k = "bool" THEN _lower_bool(v) ELSE ToStr(v)
       IN  <<(<<"--set">>), <<key>>, val>> \o set_args(Tail(keys), changes, bools)

_exec_generic_args(section, changes) == set_args(sorted_keys(changes), changes, bool_keys(section))

_exec_device_args(changes) ==
  LET key == CHOOSE k \in DOMAIN changes : TRUE
  IN  <<(<<"--set">>), <<key>>, ToStr(changes[key])>>

_exec_owner_args(changes) ==
  (IF "owner_long" \in DOMAIN changes
   THEN <<(<<"--set-owner">>), ToStr(changes["owner_long"])>> ELSE <<>>)
  \o (IF "owner_short" \in DOMAIN changes
      THEN <<(<<"--set-owner-short">>), ToStr(changes["owner_short"])>> ELSE <<>>)

(* The argument list a non-channel section is invoked with.                *)
section_args(section, changes) ==
  CASE section = "device" -> _exec_device_args(changes)
    [] section = "owner" -> _exec_owner_args(changes)
    [] OTHER -> _exec_generic_args(section, changes)

(* list(changes.keys()) for device and owner, sorted(changes.keys()) else. *)
section_fields(section, changes) ==
  IF section \in {"device", "owner"}
  THEN SelectSeq(<<"device.role", "owner_long", "owner_short">>, LAMBDA key : key \in DOMAIN changes)
  ELSE sorted_keys(changes)

ch_del_args(idx) == <<(<<"--ch-index">>), Digits(idx), <<"--ch-del">>>>

(* The fields of an upsert left after fields.pop("name").                  *)
ch_fields_after_pop(item) ==
  IF item.index > 0 /\ "name" \in DOMAIN item.fields
  THEN [key \in DOMAIN item.fields \ {"name"} |-> item.fields[key]]
  ELSE item.fields

ch_field_keys(fields) == SelectSeq(CH_FIELD_ORDER, LAMBDA key : key \in DOMAIN fields)

RECURSIVE ch_set_args(_, _)
ch_set_args(keys, fields) ==
  IF keys = <<>> THEN <<>>
  ELSE LET key == Head(keys)
           value == fields[key]
           val == IF key = "psk"
                  THEN (IF value = PyStr(<<"default">>) THEN <<"default">>
                        ELSE <<"base64:">> \o ToStr(value))
                  ELSE IF value.k = "bool" THEN _lower_bool(value) ELSE ToStr(value)
       IN  <<(<<"--ch-set">>), <<key>>, val>> \o ch_set_args(Tail(keys), fields)

(* An executor that adds the channel by name and keeps name among the      *)
(* field settings.                                                         *)
ch_upsert_args_name_kept(item) ==
  LET head == IF item.index > 0 /\ "name" \in DOMAIN item.fields
              THEN <<(<<"--ch-add">>), ToStr(item.fields["name"])>>
              ELSE <<(<<"--ch-index">>), Digits(item.index)>>
  IN  head \o ch_set_args(ch_field_keys(item.fields), item.fields)

ch_upsert_args(item) ==
  LET fields == ch_fields_after_pop(item)
      head == IF item.index > 0 /\ "name" \in DOMAIN item.fields
              THEN <<(<<"--ch-add">>), ToStr(item.fields["name"])>>
              ELSE <<(<<"--ch-index">>), Digits(item.index)>>
  IN  head \o ch_set_args(ch_field_keys(fields), fields)

(* Return codes of _exec_cli: the tool's own exit status (0, or non-zero), *)
(* 124 on timeout, 127 when the executable is missing, 1 on another fault. *)
RC_TIMEOUT == 124
RC_NOT_FOUND == 127
ReturnCodes == {0, 1, RC_TIMEOUT, RC_NOT_FOUND}

(* What subprocess.run does: the tool exits with a status (0 or non-zero), *)
(* or the call raises TimeoutExpired, FileNotFoundError or another         *)
(* Exception.                                                              *)
Outcomes == {"exit 0", "exit 1", "TimeoutExpired", "FileNotFoundError", "Exception"}

(* An _exec_cli whose last handler reports the fault as a success.         *)
_exec_cli_fault_as_success(outcome) ==
  CASE outcome = "exit 0" -> 0
    [] outcome = "exit 1" -> 1
    [] outcome = "TimeoutExpired" -> RC_TIMEOUT
    [] outcome = "FileNotFoundError" -> RC_NOT_FOUND
    [] OTHER -> 0

(* _exec_cli, lines 188-233: the returncode of the CliResult.              *)
_exec_cli(outcome) ==
  CASE outcome = "exit 0" -> 0
    [] outcome = "exit 1" -> 1
    [] outcome = "TimeoutExpired" -> RC_TIMEOUT
    [] outcome = "FileNotFoundError" -> RC_NOT_FOUND
    [] OTHER -> 1

_to_section_result(rc, fields) ==
  LET status == IF rc = 0 THEN "success" ELSE IF rc = RC_TIMEOUT THEN "timeout" ELSE "error"
  IN  [status |-> status, fieldsChanged |-> IF status = "success" THEN fields ELSE <<>>,
       deleted |-> <<>>, upserts |-> <<>>]

(* _REBOOT_SUSPECTS: a section and a key suffix.                           *)
_REBOOT_SUSPECTS ==
  { <<"device", "role">>, <<"lora", "region">>, <<"lora", "modem_preset">>,
    <<"bluetooth", "enabled">> }

(* k.endswith(suffix) over the CLI keys, for the suffixes above.           *)
KEYS_ENDING_WITH ==
  [
    role |->
      {
       "device.role" },
    region |->
      {
       "lora.region" },
    modem_preset |->
      {
       "lora.modem_preset" },
    enabled |->
      {
       "audio.codec2_enabled", "bluetooth.enabled", "canned_message.enabled",
       "detection_sensor.enabled", "lora.tx_enabled", "mqtt.enabled", "mqtt.json_enabled",
       "mqtt.map_reporting_enabled", "mqtt.proxy_to_client_enabled", "mqtt.tls_enabled",
       "neighbor_info.enabled", "network.eth_enabled", "network.wifi_enabled",
       "paxcounter.enabled", "position.position_broadcast_smart_enabled", "range_test.enabled",
       "remote_hardware.enabled", "serial.enabled", "store_forward.enabled",
       "telemetry.air_quality_enabled", "telemetry.environment_measurement_enabled",
       "telemetry.environment_screen_enabled", "telemetry.health_measurement_enabled",
       "telemetry.health_screen_enabled", "telemetry.power_measurement_enabled",
       "telemetry.power_screen_enabled" } ]

(* A check of the key suffix that leaves out the section.                  *)
_is_reboot_expected_any_section(d) ==
  \E rs \in _REBOOT_SUSPECTS, sec \in {"device", "lora", "bluetooth"} :
    Truthy(d[sec]) /\ \E key \in DOMAIN d[sec] : key \in KEYS_ENDING_WITH[rs[2]]

_is_reboot_expected(d) ==
  \E rs \in _REBOOT_SUSPECTS :
    Truthy(d[rs[1]]) /\ \E key \in DOMAIN d[rs[1]] : key \in KEYS_ENDING_WITH[rs[2]]

(* A plan that runs lora before owner.                                     *)
EXECUTION_PLAN_lora_first ==
  <<"device", "lora", "owner", "power", "position", "display", "bluetooth", "network",
    "channels", "modules">>

(* execution_plan, lines 64-75.                                            *)
EXECUTION_PLAN ==
  <<"device", "owner", "lora", "power", "position", "display", "bluetooth", "network",
    "channels", "modules">>

---------------------------------------------------------------------------
(* Logging and redaction.  A list is a value of kind "list" whose s is the *)
(* sequence of its items; a dict is a value of kind "dict" whose s is the  *)
(* sequence of its key/value pairs in insertion order.                     *)

PyList(items) == [k |-> "list", n |-> 0, s |-> items]

PyDict(pairs) == [k |-> "dict", n |-> 0, s |-> pairs]

Pair(key, val) == [key |-> key, val |-> val]

_REDACT_KEYS == {"psk", "password", "pin", "wifi_psk", "fixed_pin", "wifiPsk", "fixedPin"}

REDACTED == PyStr(<<"<redacted>">>)

(* item is None or item == "" or item == [] or item == {}                  *)
IsEmptyValue(v) == v.k = "none" \/ (v.k \in {"str", "list", "dict"} /\ v.s = <<>>)

(* A redaction of the top-level keys only.                                 *)
_redact_top_level(obj) ==
  IF obj.k = "list"
  THEN PyList(SelectSeq(obj.s, LAMBDA item : ~IsEmptyValue(item)))
  ELSE IF obj.k = "dict"
  THEN PyDict(SelectSeq(
         [i \in 1..Len(obj.s) |->
            IF obj.s[i].key \in _REDACT_KEYS THEN Pair(obj.s[i].key, REDACTED) ELSE obj.s[i]],
         LAMBDA p : ~IsEmptyValue(p.val)))
  ELSE obj

(* _redact: scalars pass; a list is rebuilt from its redacted items that   *)
(* are not empty; a dict is rebuilt with the marker under every key of     *)
(* _REDACT_KEYS and the redacted value, when not empty, under another key. *)
RECURSIVE _redact(_)
_redact(obj) ==
  IF obj.k = "list"
  THEN PyList(SelectSeq([i \in 1..Len(obj.s) |-> _redact(obj.s[i])],
                        LAMBDA item : ~IsEmptyValue(item)))
  ELSE IF obj.k = "dict"
  THEN PyDict(SelectSeq(
         [i \in 1..Len(obj.s) |->
            IF obj.s[i].key \in _REDACT_KEYS THEN Pair(obj.s[i].key, REDACTED)
            ELSE Pair(obj.s[i].key, _redact(obj.s[i].val))],
         LAMBDA p : ~IsEmptyValue(p.val)))
  ELSE obj

(* json.dumps(obj, indent=2, default=str) as a sequence of tokens; the     *)
(* white space of the indentation is left out.                             *)
RECURSIVE json_dumps(_)
json_dumps(obj) ==
  LET RECURSIVE items(_)
      items(seq) ==
        IF seq = <<>> THEN <<>>
        ELSE json_dumps(Head(seq))
               \o (IF Len(seq) > 1 THEN <<",">> ELSE <<>>) \o items(Tail(seq))
      RECURSIVE members(_)
      members(seq) ==
        IF seq = <<>> THEN <<>>
        ELSE <<"\"", Head(seq).key, "\"", ":">> \o json_dumps(Head(seq).val)
               \o (IF Len(seq) > 1 THEN <<",">> ELSE <<>>) \o members(Tail(seq))
  IN  CASE obj.k = "none" -> <<"null">>
        [] obj.k = "bool" -> (IF obj.n # 0 THEN <<"true">> ELSE <<"false">>)
        [] obj.k = "int" -> Digits(obj.n)
        [] obj.k = "str" -> <<"\"">> \o obj.s \o <<"\"">>
        [] obj.k = "list" -> <<"[">> \o items(obj.s) \o <<"]">>
        [] obj.k = "dict" -> <<"{">> \o members(obj.s) \o <<"}">>

(* The diff dict of _build_diff, lines 215-226, as a value: the sections   *)
(* in the order of the dict literal, the keys of a section in the order    *)
(* they are inserted (the order of its mapping; for an upsert's fields the *)
(* order of _diff_channels).                                               *)
diff_object(d) ==
  LET cli_keys(mapping) == [i \in 1..Len(mapping) |-> mapping[i][2]]
      RECURSIVE module_keys(_)
      module_keys(m) ==
        IF m > Len(MODULE_MAPS) THEN <<>>
        ELSE cli_keys(MODULE_MAPS[m][2]) \o module_keys(m + 1)
      insertion_order(section) ==
        CASE section = "device" -> cli_keys(DEVICE_MAP)
          [] section = "owner" -> <<"owner_long", "owner_short">>
          [] section = "lora" -> cli_keys(LORA_MAP)
          [] section = "power" -> cli_keys(POWER_MAP)
          [] section = "position" -> cli_keys(POSITION_MAP)
          [] section = "display" -> cli_keys(DISPLAY_MAP)
          [] section = "bluetooth" -> cli_keys(BLUETOOTH_MAP)
          [] section = "network" -> cli_keys(NETWORK_MAP)
          [] section = "modules" -> module_keys(1)
      dict_object(changes, ks) ==
        LET present == SelectSeq(ks, LAMBDA key : key \in DOMAIN changes)
        IN  PyDict([i \in 1..Len(present) |-> Pair(present[i], changes[present[i]])])
      channels_object(plan) ==
        PyDict(<<
          Pair("deletes", PyList([i \in 1..Len(plan.deletes) |-> PyInt(plan.deletes[i])])),
          Pair("upserts",
               PyList([u \in 1..Len(plan.upserts) |->
                         PyDict(<<Pair("index", PyInt(plan.upserts[u].index)),
                                  Pair("fields",
                                       dict_object(plan.upserts[u].fields, CH_FIELD_ORDER))>>)]))
        >>)
  IN  PyDict([i \in 1..Len(EXECUTION_PLAN) |->
                LET section == EXECUTION_PLAN[i]
                IN  Pair(section,
                         IF section = "channels" THEN channels_object(d.channels)
                         ELSE dict_object(d[section], insertion_order(section)))])

(* Line 274: the text of the "updates" log record.                         *)
logged_updates(d) == json_dumps(_redact(diff_object(d)))

(* _redact_value                                                           *)
_redact_value(val) ==
  IF val # <<>> /\ Head(val) = "base64:" THEN <<"base64:<redacted>">> ELSE <<"<redacted>">>

(* _sanitize_args: the value of each --ch-set psk pair is masked.          *)
_sanitize_args(args) ==
  LET RECURSIVE sanitize_from(_, _)
      sanitize_from(out, i) ==
        IF i > Len(out) THEN out
        ELSE IF out[i] = <<"--ch-set">> /\ i + 1 <= Len(out) /\ out[i + 1] = <<"psk">>
        THEN sanitize_from(IF i + 2 <= Len(out) THEN [out EXCEPT ![i + 2] = _redact_value(@)]
                           ELSE out,
                           i + 3)
        ELSE sanitize_from(out, i + 1)
  IN  sanitize_from(args, 1)

(* _exec_cli, lines 167-174: an argument that contains "base64:" is        *)
(* replaced in the debug record.                                           *)
exec_cli_to_log(args) ==
  [i \in 1..Len(args) |->
     IF \E j \in 1..Len(args[i]) : args[i][j] = "base64:"
     THEN <<"base64:<redacted>">> ELSE args[i]]

(* The two log records of an invocation: _run_cli_logged's "running        *)
(* command" and _exec_cli's "CLI exec".                                    *)
cli_log_records(section, args) ==
  << [op |-> "log", sec |-> section, n |-> 0, args |-> _sanitize_args(args)],
     [op |-> "log_debug", sec |-> section, n |-> 0, args |-> exec_cli_to_log(args)] >>

---------------------------------------------------------------------------
(* State.                                                                  *)

VARIABLES
  original,        \* the snapshot last read from the device
  edited,          \* the snapshot collected from the UI
  diff,            \* the result of _build_diff(original, edited)
  pc,              \* position of the running operation
  report,          \* the report apply_from_models builds
  any_success,
  reboot_expected,
  secIdx,          \* position in EXECUTION_PLAN
  chPos,           \* position in the channel plan (deletes, then upserts)
  chRes,           \* results and overall_status of _exec_channels
  cli,             \* the external invocation in progress
  ifaceOpen,       \* which SerialInterface objects hold the port open
  writer_iface,    \* DeviceWriterCLI._iface
  reader_iface,    \* DeviceWriterCLI.reader._iface
  devVer,          \* configuration version of the device: one per applied command
  ifaceCfg,        \* configuration version each interface's localNode has loaded
  pollLeft,        \* config-ready attempts left in the reconnect window
  trace            \* transport operations, invocations and waits so far

diffVars == <<original, edited, diff>>

runVars ==
  <<report, any_success, reboot_expected, secIdx, chPos, chRes, cli, ifaceOpen, writer_iface,
    reader_iface, devVer, ifaceCfg, pollLeft, trace>>

(* The application window: its three buttons, the model and port it keeps, *)
(* the settings controller's DeviceController, the worker threads started  *)
(* so far and the auto-connect scheduled at start-up.                      *)
VARIABLES btn_detect, btn_apply, btn_disconnect, _orig_model, _connected_port, settings_dc,
          workers, auto_pending

(* The rows of the channels panel, in the order they were created.         *)
VARIABLES _channel_frames

uiVars == <<btn_detect, btn_apply, btn_disconnect, _orig_model, _connected_port, settings_dc,
            workers, auto_pending, _channel_frames>>

vars == <<original, edited, diff, pc, runVars, uiVars>>

(* The interface opened at construction and the one the reconnect opens.   *)
Handles == {1, 2}

NoCli == [sec |-> "", args |-> <<>>]

NoSnapshot == [set |-> FALSE, via |-> 0, ver |-> 0]

(* keys: the keys the report dict holds; post_snapshot.set tells whether   *)
(* it holds that one.                                                      *)
NoReport ==
  [status |-> "", sections |-> EmptyDict, errors |-> <<>>, post_snapshot |-> NoSnapshot, keys |-> {}]

NoResult == [status |-> "no_change", fieldsChanged |-> <<>>, deleted |-> <<>>, upserts |-> <<>>]

Ev(op, sec, n, args) == [op |-> op, sec |-> sec, n |-> n, args |-> args]

(* DeviceController.__init__: the reader opens the port, the writer and    *)
(* the writer's own reader are given the same interface; nothing has run.  *)
RunIdle ==
  /\ report = NoReport
  /\ any_success = FALSE
  /\ reboot_expected = FALSE
  /\ secIdx = 0
  /\ chPos = 0
  /\ chRes = NoResult
  /\ cli = NoCli
  /\ ifaceOpen = [h \in Handles |-> h = 1]
  /\ writer_iface = 1
  /\ reader_iface = 1
  /\ devVer = 0
  /\ ifaceCfg = [h \in Handles |-> 0]
  /\ pollLeft = 0
  /\ trace = <<>>

(* App.__init__: only Detect / Connect is enabled, nothing is loaded.      *)
(* ChannelFrame.__init__: the row of a channel index with its entry        *)
(* variables at their defaults.                                            *)
ChannelFrame(index) ==
  [index |-> index, exists |-> TRUE, name_var |-> <<>>, key_var |-> <<>>, gps_var |-> FALSE,
   precision_var |-> <<"0">>, uplink_var |-> FALSE, downlink_var |-> FALSE]

UIIdle ==
  /\ _channel_frames = <<ChannelFrame(0)>>
  /\ btn_detect = "normal"
  /\ btn_apply = "disabled"
  /\ btn_disconnect = "disabled"
  /\ _orig_model = FALSE
  /\ _connected_port = FALSE
  /\ settings_dc = FALSE
  /\ workers = <<>>
  /\ auto_pending = FALSE

---------------------------------------------------------------------------
(* Bounded inputs.  A snapshot is the blank snapshot with some fields set; *)
(* a touch names one field and the value it is set to.                     *)

MaxTouched == 2     \* fields set in an edited snapshot
MaxChans == 2       \* channels in a channel list
MaxIndex == 2       \* highest channel index

FieldTouch(sec, mod, key, val) == [sec |-> sec, mod |-> mod, key |-> key, val |-> val]

Touches ==
  {FieldTouch("Device", "", "role", PyStr(<<w>>)) : w \in {"CLIENT", "ROUTER"}}
  \cup {FieldTouch("UserInfo", "", "longName", PyStr(<<w>>)) : w \in {"A", "B"}}
  \cup {FieldTouch("UserInfo", "", "shortName", PyStr(<<"A">>))}
  \cup {FieldTouch("Lora", "", "region", v) : v \in {None, PyStr(<<"US">>), PyStr(<<"EU">>)}}
  \cup {FieldTouch("Lora", "", "channelNum", PyInt(i)) : i \in {20, 55}}
  \cup {FieldTouch("Power", "", "lsSecs", PyInt(i)) : i \in {0, 1}}
  \cup {FieldTouch("Position", "", "positionBroadcastSmartEnabled", v) : v \in {True, False}}
  \cup {FieldTouch("Display", "", "units", PyStr(<<"METRIC">>))}
  \cup {FieldTouch("BlueTooth", "", "enabled", v) : v \in {True, False}}
  \cup {FieldTouch("BlueTooth", "", "fixedPin", v) :
           v \in {PyInt(12), PyStr(<<"1", "2">>), PyStr(<<" ">>), PyStr(<<"x">>)}}
  \cup {FieldTouch("Network", "", "wifiPsk", PyStr(s)) : s \in {<<>>, <<"k">>}}
  \cup {FieldTouch("ModuleConfig", "mqtt", "enabled", v) : v \in {None, True, False}}
  \cup {FieldTouch("ModuleConfig", "mqtt", "address", PyStr(s)) : s \in {<<" ">>, <<"h">>, <<"h", " ">>}}
  \cup {FieldTouch("ModuleConfig", "serial", "rxd", PyInt(i)) : i \in {0, 1}}

FieldOf(t) == <<t.sec, t.mod, t.key>>

(* Sets of at most n touches of distinct fields.                           *)
RECURSIVE TouchSets(_)
TouchSets(n) ==
  IF n = 0 THEN {{}}
  ELSE LET smaller == TouchSets(n - 1)
       IN  smaller \cup {T \cup {t} : T \in smaller, t \in Touches}

Consistent(T) == \A t1, t2 \in T : FieldOf(t1) = FieldOf(t2) => t1 = t2

(* The dict of the fields touched in section sec (module mod).             *)
SectionOf(T, sec, mod) ==
  [key \in {t.key : t \in {u \in T : u.sec = sec /\ u.mod = mod}} |->
     (CHOOSE t \in T : t.sec = sec /\ t.mod = mod /\ t.key = key).val]

Snapshot(T, chans) ==
  [Device |-> SectionOf(T, "Device", ""),
   UserInfo |-> SectionOf(T, "UserInfo", ""),
   Lora |-> SectionOf(T, "Lora", ""),
   Power |-> SectionOf(T, "Power", ""),
   Position |-> SectionOf(T, "Position", ""),
   Display |-> SectionOf(T, "Display", ""),
   BlueTooth |-> SectionOf(T, "BlueTooth", ""),
   Network |-> SectionOf(T, "Network", ""),
   MeshChannels |-> chans,
   ModuleConfig |-> [mod \in {t.mod : t \in {u \in T : u.sec = "ModuleConfig"}} |->
                       SectionOf(T, "ModuleConfig", mod)]]

(* Channel dicts: an index and one of a few field profiles.                *)
ChanProfiles ==
  { [name |-> None, psk |-> None, uplink_enabled |-> False,
     downlink_enabled |-> False, position_precision |-> PyInt(0)],
    [name |-> PyStr(<<"A">>), psk |-> PyStr(<<"k">>), uplink_enabled |-> True,
     downlink_enabled |-> True, position_precision |-> PyInt(1)],
    [name |-> PyStr(<<"B">>), psk |-> PyStr(<<" ">>), uplink_enabled |-> False,
     downlink_enabled |-> False, position_precision |-> PyInt(0)],
    [name |-> PyStr(<<"A">>), psk |-> None, uplink_enabled |-> True,
     downlink_enabled |-> None, position_precision |-> PyInt(0)],
    [name |-> None, psk |-> PyStr(<<"k", " ">>), uplink_enabled |-> None,
     downlink_enabled |-> False, position_precision |-> PyInt(1)] }

Channel(idx, profile) ==
  [key \in {"index"} \cup DOMAIN profile |-> IF key = "index" THEN PyInt(idx) ELSE profile[key]]

(* Channel lists in ascending index order, as the device reader and the UI *)
(* produce them.                                                           *)
RECURSIVE ChanListsFrom(_, _, _)
ChanListsFrom(profiles, lo, n) ==
  IF n = 0 \/ lo > MaxIndex THEN {<<>>}
  ELSE {<<>>} \cup UNION {{<<Channel(idx, p)>> \o rest :
                               p \in profiles, rest \in ChanListsFrom(profiles, idx + 1, n - 1)} :
                             idx \in lo..MaxIndex}

ChanLists == ChanListsFrom(ChanProfiles, 0, MaxChans)

(* DeviceReader.snapshot sets the two flags and the precision of every     *)
(* channel; name and psk are both read or both left None here.             *)
DeviceChanProfiles ==
  {p \in ChanProfiles : /\ Get(p, "uplink_enabled") # None
                        /\ Get(p, "downlink_enabled") # None
                        /\ (Get(p, "name") = None) = (Get(p, "psk") = None)
                        /\ Get(p, "psk") # PyStr(<<" ">>)}

DeviceChanLists == ChanListsFrom(DeviceChanProfiles, 0, MaxChans)

(* One value per field for the snapshot read from the device.              *)
DeviceTouches ==
  { FieldTouch("Device", "", "role", PyStr(<<"CLIENT">>)),
    FieldTouch("UserInfo", "", "longName", PyStr(<<"A">>)),
    FieldTouch("Lora", "", "region", PyStr(<<"US">>)),
    FieldTouch("Lora", "", "channelNum", PyInt(20)),
    FieldTouch("Power", "", "lsSecs", PyInt(0)),
    FieldTouch("Position", "", "positionBroadcastSmartEnabled", True),
    FieldTouch("BlueTooth", "", "enabled", False),
    FieldTouch("BlueTooth", "", "fixedPin", PyInt(12)),
    FieldTouch("Network", "", "wifiPsk", PyStr(<<"k">>)),
    FieldTouch("ModuleConfig", "mqtt", "enabled", True),
    FieldTouch("ModuleConfig", "mqtt", "address", PyStr(<<"h">>)),
    FieldTouch("ModuleConfig", "serial", "rxd", PyInt(0)) }

NoDiff == _build_diff(Snapshot({}, <<>>), Snapshot({}, <<>>))

---------------------------------------------------------------------------
(* The diff as a function of its inputs.                                   *)

InitDiffSections ==
  \E To \in {{}} \cup {{t} : t \in DeviceTouches}, Te \in TouchSets(MaxTouched) :
    /\ Consistent(Te)
    /\ original = Snapshot(To, <<>>)
    /\ edited = Snapshot(Te, <<>>)

InitDiffChannels ==
  \E co \in DeviceChanLists, ce \in ChanLists :
    /\ original = Snapshot({}, co)
    /\ edited = Snapshot({}, ce)

InitDiff ==
  /\ InitDiffSections \/ InitDiffChannels
  /\ diff = NoDiff
  /\ pc = "idle"
  /\ RunIdle
  /\ UIIdle

ComputeDiff ==
  /\ pc = "idle"
  /\ diff' = _build_diff(original, edited)
  /\ pc' = "diffed"
  /\ trace' = Append(trace, Ev("log", "updates", 0, logged_updates(diff')))
  /\ UNCHANGED <<uiVars, original, edited, report, any_success, reboot_expected, secIdx, chPos, chRes,
                 cli, ifaceOpen, writer_iface, reader_iface, devVer, ifaceCfg, pollLeft>>

NextDiff == ComputeDiff

SpecDiff == InitDiff /\ [][NextDiff]_vars
---------------------------------------------------------------------------
(* apply_from_models: one apply run of a DeviceController made for it.     *)

MaxPoll == 2        \* config-ready attempts that fit in the reconnect window

(* The device as last read, and the edits of the UI applied on top of it.  *)
BaseTouches ==
  { FieldTouch("Device", "", "role", PyStr(<<"CLIENT">>)),
    FieldTouch("Lora", "", "region", PyStr(<<"US">>)),
    FieldTouch("Lora", "", "channelNum", PyInt(20)),
    FieldTouch("BlueTooth", "", "enabled", False) }

RunTouches ==
  { FieldTouch("Device", "", "role", PyStr(<<"ROUTER">>)),
    FieldTouch("UserInfo", "", "longName", PyStr(<<"B">>)),
    FieldTouch("Lora", "", "region", PyStr(<<"EU">>)),
    FieldTouch("Lora", "", "channelNum", PyInt(55)),
    FieldTouch("Lora", "", "channelNum", PyInt(20)),
    FieldTouch("Power", "", "lsSecs", PyInt(1)),
    FieldTouch("Position", "", "positionBroadcastSmartEnabled", False),
    FieldTouch("Display", "", "units", PyStr(<<"METRIC">>)),
    FieldTouch("BlueTooth", "", "enabled", True),
    FieldTouch("Network", "", "wifiPsk", PyStr(<<"k">>)),
    FieldTouch("ModuleConfig", "mqtt", "enabled", True) }

RECURSIVE RunTouchSets(_)
RunTouchSets(n) ==
  IF n = 0 THEN {{}}
  ELSE LET smaller == RunTouchSets(n - 1)
       IN  smaller \cup {T \cup {t} : T \in smaller, t \in RunTouches}

Override(T, U) == U \cup {t \in T : \A u \in U : FieldOf(u) # FieldOf(t)}

RunChanPairs ==
  LET full == CHOOSE p \in ChanProfiles : Get(p, "name") = PyStr(<<"A">>) /\ Get(p, "psk") # None
      other == CHOOSE p \in ChanProfiles : Get(p, "name") = PyStr(<<"B">>)
      c0 == Channel(0, full)
  IN  { <<(<<c0>>), <<c0>>>>,
        <<(<<c0, Channel(1, full), Channel(2, other)>>), <<c0>>>>,
        <<(<<c0>>), <<Channel(0, other), Channel(1, full)>>>>,
        <<(<<c0, Channel(1, full), Channel(2, other)>>), <<c0, Channel(1, other)>>>>,
        <<(<<c0, Channel(1, full), Channel(2, other)>>), <<Channel(0, other)>>>> }

Init ==
  /\ \E Te \in RunTouchSets(MaxTouched), cp \in RunChanPairs :
       /\ Consistent(Te)
       /\ original = Snapshot(BaseTouches, cp[1])
       /\ edited = Snapshot(Override(BaseTouches, Te), cp[2])
  /\ diff = NoDiff
  /\ pc = "idle"
  /\ RunIdle
  /\ UIIdle

Put(d, key, v) == [x \in DOMAIN d \cup {key} |-> IF x = key THEN v ELSE d[x]]

(* A detach that leaves the interface open.                                *)
_detach_for_cli_left_open(open, h) == open

(* iface.close(), exceptions suppressed.                                   *)
_detach_for_cli(open, h) == [open EXCEPT ![h] = FALSE]

Section == EXECUTION_PLAN[secIdx]

(* Lines 51-55: the diff, and the return when not any(diff.values()).      *)
ApplyDiff ==
  /\ pc = "idle"
  /\ LET d == _build_diff(original, edited)
     IN  /\ diff' = d
         /\ IF ~(\E sec \in DOMAIN d : Truthy(d[sec]))
            THEN /\ pc' = "returned"
                 /\ report' = [NoReport EXCEPT !.status = "no_change",
                                                !.keys = {"status", "sections"}]
            ELSE /\ pc' = "detach"
                 /\ UNCHANGED report
  /\ trace' = Append(trace, Ev("log", "updates", 0, logged_updates(diff')))
  /\ UNCHANGED <<uiVars, original, edited, any_success, reboot_expected, secIdx, chPos, chRes, cli,
                 ifaceOpen, writer_iface, reader_iface, devVer, ifaceCfg, pollLeft>>

(* Lines 57-77: first detach, empty report, reboot_expected.               *)
Detach ==
  /\ pc = "detach"
  /\ ifaceOpen' = _detach_for_cli(ifaceOpen, writer_iface)
  /\ report' = [NoReport EXCEPT !.status = "ok", !.keys = {"status", "sections", "errors"}]
  /\ reboot_expected' = _is_reboot_expected(diff)
  /\ any_success' = FALSE
  /\ secIdx' = 1
  /\ pc' = "loop"
  /\ trace' = Append(trace, Ev("detach", "", writer_iface, <<>>))
  /\ UNCHANGED <<uiVars, diffVars, chPos, chRes, cli, writer_iface, reader_iface, devVer, ifaceCfg,
                 pollLeft>>

(* A loop that records a failure and goes on with the next section.        *)
RecordSection_no_break(section, sec_res) ==
  LET failed == sec_res.status \notin {"success", "no_change"}
  IN  /\ report' = [report EXCEPT !.sections = Put(@, section, sec_res),
                                  !.status = IF failed THEN "error" ELSE @,
                                  !.errors = IF failed THEN Append(@, section) ELSE @]
      /\ any_success' = (any_success \/ sec_res.status = "success")
      /\ pc' = "loop"
      /\ secIdx' = secIdx + 1

(* A failed section that ends the run at once: no settle wait, reconnect   *)
(* or snapshot.                                                            *)
RecordSection_return_on_failure(section, sec_res) ==
  LET failed == sec_res.status \notin {"success", "no_change"}
  IN  /\ report' = [report EXCEPT !.sections = Put(@, section, sec_res),
                                  !.status = IF failed THEN "error" ELSE @,
                                  !.errors = IF failed THEN Append(@, section) ELSE @]
      /\ any_success' = (any_success \/ sec_res.status = "success")
      /\ IF failed
         THEN pc' = "finally" /\ UNCHANGED secIdx
         ELSE pc' = "loop" /\ secIdx' = secIdx + 1

(* Lines 84-91: the section's result enters the report; a result that is   *)
(* neither success nor no_change ends the loop.                            *)
RecordSection(section, sec_res) ==
  LET failed == sec_res.status \notin {"success", "no_change"}
  IN  /\ report' = [report EXCEPT !.sections = Put(@, section, sec_res),
                                  !.status = IF failed THEN "error" ELSE @,
                                  !.errors = IF failed THEN Append(@, section) ELSE @]
      /\ any_success' = (any_success \/ sec_res.status = "success")
      /\ IF failed
         THEN pc' = "settle" /\ UNCHANGED secIdx
         ELSE pc' = "loop" /\ secIdx' = secIdx + 1

(* A loop without the payload test: the executor of an empty changeset is  *)
(* called and runs an invocation without arguments.                        *)
SkipSection_invoke_empty ==
  /\ pc = "loop"
  /\ secIdx <= Len(EXECUTION_PLAN)
  /\ ~Truthy(diff[Section])
  /\ cli' = [sec |-> Section, args |-> <<>>]
  /\ pc' = "cli"
  /\ trace' = Append(trace, Ev("cli_start", Section, 0, <<>>))
  /\ UNCHANGED <<uiVars, diffVars, report, any_success, reboot_expected, secIdx, chPos, chRes,
                 ifaceOpen, writer_iface, reader_iface, devVer, ifaceCfg, pollLeft>>

(* Lines 80-81: a section with an empty payload is passed over.            *)
SkipSection ==
  /\ pc = "loop"
  /\ secIdx <= Len(EXECUTION_PLAN)
  /\ ~Truthy(diff[Section])
  /\ secIdx' = secIdx + 1
  /\ UNCHANGED <<uiVars, diffVars, pc, report, any_success, reboot_expected, chPos, chRes, cli,
                 ifaceOpen, writer_iface, reader_iface, devVer, ifaceCfg, pollLeft, trace>>

(* A non-channel executor starts its one invocation (an owner changeset    *)
(* that yields no argument returns no_change without one).                 *)
StartSection ==
  /\ pc = "loop"
  /\ secIdx <= Len(EXECUTION_PLAN)
  /\ Section # "channels"
  /\ Truthy(diff[Section])
  /\ LET args == section_args(Section, diff[Section])
     IN  IF args = <<>>
         THEN /\ RecordSection(Section, NoResult)
              /\ UNCHANGED <<cli, trace>>
         ELSE /\ cli' = [sec |-> Section, args |-> args]
              /\ pc' = "cli"
              /\ trace' = Append(trace \o cli_log_records(Section, args),
                                 Ev("cli_start", Section, 0, args))
              /\ UNCHANGED <<report, any_success, secIdx>>
  /\ UNCHANGED <<uiVars, diffVars, reboot_expected, chPos, chRes, ifaceOpen, writer_iface, reader_iface,
                 devVer, ifaceCfg, pollLeft>>

(* The invocation returns; a command that succeeded has changed the device.*)
CliReturn ==
  /\ pc = "cli"
  /\ \E outcome \in Outcomes :
       LET rc == _exec_cli(outcome)
       IN  /\ RecordSection(Section, _to_section_result(rc, section_fields(Section, diff[Section])))
           /\ devVer' = IF rc = 0 THEN devVer + 1 ELSE devVer
           /\ trace' = Append(trace, Ev("cli_end", Section, rc, <<outcome>>))
  /\ cli' = NoCli
  /\ UNCHANGED <<uiVars, diffVars, reboot_expected, chPos, chRes, ifaceOpen, writer_iface, reader_iface,
                 ifaceCfg, pollLeft>>

(* _exec_channels                                                          *)
NumDeletes == Len(diff.channels.deletes)

NumChannelOps == NumDeletes + Len(diff.channels.upserts)

EnterChannels ==
  /\ pc = "loop"
  /\ secIdx <= Len(EXECUTION_PLAN)
  /\ Section = "channels"
  /\ Truthy(diff[Section])
  /\ chPos' = 1
  /\ chRes' = NoResult
  /\ pc' = "ch_loop"
  /\ UNCHANGED <<uiVars, diffVars, report, any_success, reboot_expected, secIdx, cli, ifaceOpen,
                 writer_iface, reader_iface, devVer, ifaceCfg, pollLeft, trace>>

(* An executor whose fields dict is the edited channel itself, so that the *)
(* pop of name reaches the edited snapshot.                                *)
ChStart_pop_from_edited ==
  /\ pc = "ch_loop"
  /\ chPos <= NumChannelOps
  /\ IF chPos <= NumDeletes
     THEN LET idx == diff.channels.deletes[chPos]
          IN  /\ cli' = [sec |-> "channels", args |-> ch_del_args(idx)]
              /\ trace' = Append(trace \o cli_log_records("channels", ch_del_args(idx)),
                                 Ev("cli_start", "channels", idx, ch_del_args(idx)))
              /\ UNCHANGED <<diff, edited>>
     ELSE LET u == chPos - NumDeletes
              item == diff.channels.upserts[u]
          IN  /\ cli' = [sec |-> "channels", args |-> ch_upsert_args(item)]
              /\ trace' = Append(trace \o cli_log_records("channels", ch_upsert_args(item)),
                                 Ev("cli_start", "channels", item.index, ch_upsert_args(item)))
              /\ diff' = [diff EXCEPT !.channels.upserts[u].fields = ch_fields_after_pop(item)]
              /\ edited' = [edited EXCEPT !.MeshChannels =
                              [i \in DOMAIN @ |->
                                 IF ChIndex(@[i]) = item.index /\ item.index > 0
                                 THEN [key \in DOMAIN @[i] \ {"name"} |-> @[i][key]] ELSE @[i]]]
  /\ pc' = "ch_cli"
  /\ UNCHANGED <<uiVars, original, report, any_success, reboot_expected, secIdx, chPos, chRes,
                 ifaceOpen, writer_iface, reader_iface, devVer, ifaceCfg, pollLeft>>

(* The next delete or upsert is invoked; an add-with-name upsert pops name *)
(* from the plan's own fields dict.                                        *)
ChStart ==
  /\ pc = "ch_loop"
  /\ chPos <= NumChannelOps
  /\ IF chPos <= NumDeletes
     THEN LET idx == diff.channels.deletes[chPos]
          IN  /\ cli' = [sec |-> "channels", args |-> ch_del_args(idx)]
              /\ trace' = Append(trace \o cli_log_records("channels", ch_del_args(idx)),
                                 Ev("cli_start", "channels", idx, ch_del_args(idx)))
              /\ UNCHANGED diff
     ELSE LET u == chPos - NumDeletes
              item == diff.channels.upserts[u]
          IN  /\ cli' = [sec |-> "channels", args |-> ch_upsert_args(item)]
              /\ trace' = Append(trace \o cli_log_records("channels", ch_upsert_args(item)),
                                 Ev("cli_start", "channels", item.index, ch_upsert_args(item)))
              /\ diff' = [diff EXCEPT !.channels.upserts[u].fields = ch_fields_after_pop(item)]
  /\ pc' = "ch_cli"
  /\ UNCHANGED <<uiVars, original, edited, report, any_success, reboot_expected, secIdx, chPos, chRes,
                 ifaceOpen, writer_iface, reader_iface, devVer, ifaceCfg, pollLeft>>

(* An _exec_channels that goes on with the next operation after a failed   *)
(* one.                                                                    *)
ChReturn_continue ==
  /\ pc = "ch_cli"
  /\ \E outcome \in Outcomes :
       LET rc == _exec_cli(outcome)
           isDelete == chPos <= NumDeletes
           item == diff.channels.upserts[chPos - NumDeletes]
           res == _to_section_result(rc, IF isDelete THEN <<>> ELSE ch_field_keys(item.fields))
           entry == [index |-> IF isDelete THEN diff.channels.deletes[chPos] ELSE item.index,
                     status |-> res.status, fieldsChanged |-> res.fieldsChanged]
           results == IF isDelete THEN [chRes EXCEPT !.deleted = Append(@, entry)]
                      ELSE [chRes EXCEPT !.upserts = Append(@, entry)]
       IN  /\ chRes' = [results EXCEPT !.status = IF rc # 0 THEN "error" ELSE "success"]
           /\ chPos' = chPos + 1
           /\ pc' = "ch_loop"
           /\ UNCHANGED <<report, any_success, secIdx>>
           /\ devVer' = IF rc = 0 THEN devVer + 1 ELSE devVer
           /\ trace' = Append(trace, Ev("cli_end", "channels", rc, <<outcome>>))
  /\ cli' = NoCli
  /\ UNCHANGED <<uiVars, diffVars, reboot_expected, ifaceOpen, writer_iface, reader_iface, ifaceCfg,
                 pollLeft>>

(* Lines 396-400 and 416-420: the invocation returns, its entry joins the  *)
(* results, and a non-zero return code ends the executor with "error".     *)
ChReturn ==
  /\ pc = "ch_cli"
  /\ \E outcome \in Outcomes :
       LET rc == _exec_cli(outcome)
           isDelete == chPos <= NumDeletes
           item == diff.channels.upserts[chPos - NumDeletes]
           res == _to_section_result(rc, IF isDelete THEN <<>> ELSE ch_field_keys(item.fields))
           entry == [index |-> IF isDelete THEN diff.channels.deletes[chPos] ELSE item.index,
                     status |-> res.status, fieldsChanged |-> res.fieldsChanged]
           results == IF isDelete THEN [chRes EXCEPT !.deleted = Append(@, entry)]
                      ELSE [chRes EXCEPT !.upserts = Append(@, entry)]
       IN  /\ IF rc # 0
              THEN /\ RecordSection("channels", [results EXCEPT !.status = "error"])
                   /\ chRes' = [results EXCEPT !.status = "error"]
                   /\ UNCHANGED chPos
              ELSE /\ chRes' = [results EXCEPT !.status = "success"]
                   /\ chPos' = chPos + 1
                   /\ pc' = "ch_loop"
                   /\ UNCHANGED <<report, any_success, secIdx>>
           /\ devVer' = IF rc = 0 THEN devVer + 1 ELSE devVer
           /\ trace' = Append(trace, Ev("cli_end", "channels", rc, <<outcome>>))
  /\ cli' = NoCli
  /\ UNCHANGED <<uiVars, diffVars, reboot_expected, ifaceOpen, writer_iface, reader_iface, ifaceCfg,
                 pollLeft>>

ChDone ==
  /\ pc = "ch_loop"
  /\ chPos > NumChannelOps
  /\ RecordSection("channels", chRes)
  /\ UNCHANGED <<uiVars, diffVars, reboot_expected, chPos, chRes, cli, ifaceOpen, writer_iface,
                 reader_iface, devVer, ifaceCfg, pollLeft, trace>>

LoopEnd ==
  /\ pc = "loop"
  /\ secIdx > Len(EXECUTION_PLAN)
  /\ pc' = "settle"
  /\ UNCHANGED <<uiVars, diffVars, runVars>>

(* A settle wait taken only after a section succeeded.                     *)
Settle_only_on_success ==
  /\ pc = "settle"
  /\ trace' = IF any_success THEN Append(trace, Ev("sleep", "", 0, <<>>)) ELSE trace
  /\ pc' = "reconnect"
  /\ UNCHANGED <<uiVars, diffVars, report, any_success, reboot_expected, secIdx, chPos, chRes, cli,
                 ifaceOpen, writer_iface, reader_iface, devVer, ifaceCfg, pollLeft>>

(* Lines 93-95: the settle wait.                                           *)
Settle ==
  /\ pc = "settle"
  /\ trace' = IF reboot_expected \/ any_success
              THEN Append(trace, Ev("sleep", "", 0, <<>>)) ELSE trace
  /\ pc' = "reconnect"
  /\ UNCHANGED <<uiVars, diffVars, report, any_success, reboot_expected, secIdx, chPos, chRes, cli,
                 ifaceOpen, writer_iface, reader_iface, devVer, ifaceCfg, pollLeft>>

(* A handler that appends the error and drops the section results.         *)
RecordReconnectOrSnapshotError_sections_dropped ==
  report' = [report EXCEPT !.errors = Append(@, "reconnect_or_snapshot"),
                           !.sections = EmptyDict]

(* Line 104: the handler of the inner try.                                 *)
RecordReconnectOrSnapshotError ==
  report' = [report EXCEPT !.errors = Append(@, "reconnect_or_snapshot")]

(* _reconnect_after_cli, lines 129-132: a new SerialInterface on the port, *)
(* or RuntimeError.                                                        *)
ReconnectOpen ==
  /\ pc = "reconnect"
  /\ \E ok \in BOOLEAN :
       IF ok
       THEN LET h == CHOOSE x \in Handles : x # writer_iface
            IN  /\ ifaceOpen' = [ifaceOpen EXCEPT ![h] = TRUE]
                /\ writer_iface' = h
                /\ pollLeft' = MaxPoll
                /\ pc' = "poll"
                /\ trace' = Append(trace, Ev("open", "", h, <<>>))
                /\ UNCHANGED report
       ELSE /\ RecordReconnectOrSnapshotError
            /\ pc' = "finally"
            /\ trace' = Append(trace, Ev("open_failed", "", 0, <<>>))
            /\ UNCHANGED <<ifaceOpen, writer_iface, pollLeft>>
  /\ UNCHANGED <<uiVars, diffVars, any_success, reboot_expected, secIdx, chPos, chRes, cli, reader_iface,
                 devVer, ifaceCfg>>

(* _reconnect_after_cli, lines 134-146: waitForConfig until it succeeds or *)
(* the window has elapsed; either way the call returns normally.           *)
PollConfig ==
  /\ pc = "poll"
  /\ \E ok \in BOOLEAN :
       IF ok
       THEN /\ ifaceCfg' = [ifaceCfg EXCEPT ![writer_iface] = devVer]
            /\ pollLeft' = 0
            /\ pc' = "snapshot"
            /\ trace' = Append(trace, Ev("config_ready", "", writer_iface, <<>>))
       ELSE /\ pollLeft' = pollLeft - 1
            /\ pc' = IF pollLeft = 1 THEN "snapshot" ELSE "poll"
            /\ trace' = Append(trace, Ev("config_failed", "", writer_iface, <<>>))
            /\ UNCHANGED ifaceCfg
  /\ UNCHANGED <<uiVars, diffVars, report, any_success, reboot_expected, secIdx, chPos, chRes, cli,
                 ifaceOpen, writer_iface, reader_iface, devVer>>

(* Lines 100-101: self.reader.snapshot(force_refresh=True).  An open       *)
(* interface reloads the device's configuration; a closed one still has    *)
(* the localNode it loaded while it was open.  The read may raise.         *)
ReadSnapshot ==
  /\ pc = "snapshot"
  /\ \E ok \in BOOLEAN :
       IF ok
       THEN LET ver == IF ifaceOpen[reader_iface] THEN devVer ELSE ifaceCfg[reader_iface]
            IN  /\ report' = [report EXCEPT !.post_snapshot =
                                [set |-> TRUE, via |-> reader_iface, ver |-> ver]]
                /\ ifaceCfg' = [ifaceCfg EXCEPT ![reader_iface] = ver]
                /\ trace' = Append(trace, Ev("snapshot", "", reader_iface, <<>>))
       ELSE /\ RecordReconnectOrSnapshotError
            /\ trace' = Append(trace, Ev("snapshot_failed", "", reader_iface, <<>>))
            /\ UNCHANGED ifaceCfg
  /\ pc' = "finally"
  /\ UNCHANGED <<uiVars, diffVars, any_success, reboot_expected, secIdx, chPos, chRes, cli, ifaceOpen,
                 writer_iface, reader_iface, devVer, pollLeft>>

(* Lines 78-107: an exception that escapes the loop or the settle wait     *)
(* leaves the try body for the finally clause.                             *)
Raise ==
  /\ pc \in {"loop", "ch_loop", "settle"}
  /\ pc' = "finally_raised"
  /\ trace' = Append(trace, Ev("raise", "", 0, <<>>))
  /\ UNCHANGED <<uiVars, diffVars, report, any_success, reboot_expected, secIdx, chPos, chRes, cli,
                 ifaceOpen, writer_iface, reader_iface, devVer, ifaceCfg, pollLeft>>

(* A return without the finally clause.                                    *)
FinalDetach_skipped ==
  /\ pc \in {"finally", "finally_raised"}
  /\ pc' = IF pc = "finally" THEN "returned" ELSE "raised"
  /\ UNCHANGED <<uiVars, diffVars, runVars>>

(* Lines 107-111: the finally clause, then the report is returned or the   *)
(* exception goes on to the caller.                                        *)
FinalDetach ==
  /\ pc \in {"finally", "finally_raised"}
  /\ ifaceOpen' = _detach_for_cli(ifaceOpen, writer_iface)
  /\ trace' = Append(trace, Ev("detach", "", writer_iface, <<>>))
  /\ pc' = IF pc = "finally" THEN "returned" ELSE "raised"
  /\ UNCHANGED <<uiVars, diffVars, report, any_success, reboot_expected, secIdx, chPos, chRes, cli,
                 writer_iface, reader_iface, devVer, ifaceCfg, pollLeft>>

Next ==
  \/ ApplyDiff
  \/ Detach
  \/ SkipSection
  \/ StartSection
  \/ CliReturn
  \/ EnterChannels
  \/ ChStart
  \/ ChReturn
  \/ ChDone
  \/ LoopEnd
  \/ Settle
  \/ ReconnectOpen
  \/ PollConfig
  \/ ReadSnapshot
  \/ Raise
  \/ FinalDetach

Spec == Init /\ [][Next]_vars

---------------------------------------------------------------------------
(* The channel table of the device, as the invocations of _exec_channels   *)
(* change it: --ch-index i --ch-del removes slot i; --ch-add name creates  *)
(* a channel with that name in the lowest free slot and applies the        *)
(* --ch-set pairs to it; --ch-index i --ch-set ... updates slot i (a slot  *)
(* that holds no channel stays empty).  The tool parses the argument texts *)
(* the executor formatted.                                                 *)
device_apply(table, args) ==
  LET model_key(key) == IF key = "module_settings.position_precision" THEN "position_precision" ELSE key
      parse(key, val) ==
        CASE key = "psk" -> (IF val = <<"default">> THEN None ELSE PyStr(Tail(val)))
          [] key = "name" -> PyStr(val)
          [] key \in {"uplink_enabled", "downlink_enabled"} -> PyBool(val = <<"true">>)
          [] OTHER -> PyInt(ToInt(val))
      RECURSIVE set_from(_, _)
      set_from(ch, i) ==
        IF i + 2 > Len(args) THEN ch
        ELSE set_from(Put(ch, model_key(args[i + 1][1]), parse(args[i + 1][1], args[i + 2])), i + 3)
      free == CHOOSE idx \in 0..(MaxIndex + 2) :
                idx \notin DOMAIN table /\ \A j \in 0..(idx - 1) : j \in DOMAIN table
      blank == [index |-> PyInt(free), name |-> PyStr(args[2]), psk |-> None,
                uplink_enabled |-> False, downlink_enabled |-> False, position_precision |-> PyInt(0)]
      idx == ToInt(args[2])
  IN  IF args[1] = <<"--ch-add">> THEN Put(table, free, set_from(blank, 3))
      ELSE IF args = ch_del_args(idx) THEN [j \in DOMAIN table \ {idx} |-> table[j]]
      ELSE IF idx \in DOMAIN table THEN [table EXCEPT ![idx] = set_from(@, 3)]
      ELSE table

(* The table after the first n events of the run: the original channels    *)
(* changed by every channel invocation that returned 0.                    *)
RECURSIVE ChannelTable(_)
ChannelTable(n) ==
  IF n = 0 THEN by_idx(original.MeshChannels)
  ELSE IF trace[n].op = "cli_end" /\ trace[n].sec = "channels" /\ trace[n].n = 0
       THEN device_apply(ChannelTable(n - 1), trace[n - 1].args)
       ELSE ChannelTable(n - 1)

---------------------------------------------------------------------------
(* The section executors called on their own.  Each executor of the plan,  *)
(* from a chosen one on, is called with its payload of the diff, an empty  *)
(* payload included: the call is not guarded by the orchestrator's         *)
(* "if not payload: continue".                                             *)

InitExec ==
  /\ \E Te \in RunTouchSets(MaxTouched)
               \cup {{FieldTouch("BlueTooth", "", "enabled", True),
                      FieldTouch("BlueTooth", "", "fixedPin", PyInt(12))},
                     {FieldTouch("ModuleConfig", "serial", "rxd", PyInt(1)),
                      FieldTouch("ModuleConfig", "mqtt", "enabled", True),
                      FieldTouch("ModuleConfig", "mqtt", "address", PyStr(<<"h">>))}},
          cp \in RunChanPairs :
       /\ Consistent(Te)
       /\ original = Snapshot(BaseTouches, cp[1])
       /\ edited = Snapshot(Override(BaseTouches, Te), cp[2])
  /\ diff = _build_diff(original, edited)
  /\ pc = "loop"
  /\ report = [NoReport EXCEPT !.status = "ok", !.keys = {"status", "sections", "errors"}]
  /\ any_success = FALSE
  /\ reboot_expected = FALSE
  /\ secIdx \in 1..Len(EXECUTION_PLAN)
  /\ chPos = 0
  /\ chRes = NoResult
  /\ cli = NoCli
  /\ ifaceOpen = [h \in Handles |-> FALSE]
  /\ writer_iface = 1
  /\ reader_iface = 1
  /\ devVer = 0
  /\ ifaceCfg = [h \in Handles |-> 0]
  /\ pollLeft = 0
  /\ trace = <<>>
  /\ UIIdle

(* An executor called with an empty dict.  _exec_generic (line 333) and    *)
(* _exec_owner (line 362) return no_change; _exec_device (line 352) takes  *)
(* next(iter(changes.keys())) of the empty dict, which raises              *)
(* StopIteration.                                                          *)
ExecEmpty ==
  /\ pc = "loop"
  /\ secIdx <= Len(EXECUTION_PLAN)
  /\ Section # "channels"
  /\ ~Truthy(diff[Section])
  /\ IF Section = "device"
     THEN /\ pc' = "exec_raised"
          /\ trace' = Append(trace, Ev("raise", Section, 0, <<>>))
          /\ UNCHANGED <<report, any_success, secIdx>>
     ELSE /\ RecordSection(Section, NoResult)
          /\ UNCHANGED trace
  /\ UNCHANGED <<uiVars, diffVars, reboot_expected, chPos, chRes, cli, ifaceOpen, writer_iface,
                 reader_iface, devVer, ifaceCfg, pollLeft>>

NextExec ==
  \/ ExecEmpty
  \/ StartSection
  \/ CliReturn
  \/ EnterChannels
  \/ ChStart
  \/ ChReturn
  \/ ChDone

SpecExec == InitExec /\ [][NextExec]_vars

---------------------------------------------------------------------------
(* _is_reboot_expected over diffs that touch the suspect keys and their    *)
(* neighbours in the same sections.                                        *)

RebootTouches ==
  { FieldTouch("Device", "", "role", PyStr(<<"ROUTER">>)),
    FieldTouch("UserInfo", "", "longName", PyStr(<<"B">>)),
    FieldTouch("Lora", "", "region", PyStr(<<"EU">>)),
    FieldTouch("Lora", "", "region", PyStr(<<"US">>)),
    FieldTouch("Lora", "", "modemPreset", PyStr(<<"LONG_FAST">>)),
    FieldTouch("Lora", "", "channelNum", PyInt(55)),
    FieldTouch("Lora", "", "txEnabled", True),
    FieldTouch("Lora", "", "txEnabled", None),
    FieldTouch("BlueTooth", "", "enabled", True),
    FieldTouch("BlueTooth", "", "enabled", False),
    FieldTouch("BlueTooth", "", "mode", PyStr(<<"FIXED_PIN">>)),
    FieldTouch("BlueTooth", "", "fixedPin", PyInt(12)),
    FieldTouch("Network", "", "wifiEnabled", True),
    FieldTouch("ModuleConfig", "mqtt", "enabled", True) }

RECURSIVE RebootTouchSets(_)
RebootTouchSets(n) ==
  IF n = 0 THEN {{}}
  ELSE LET smaller == RebootTouchSets(n - 1)
       IN  smaller \cup {T \cup {t} : T \in smaller, t \in RebootTouches}

InitReboot ==
  /\ \E Te \in RebootTouchSets(MaxTouched), cp \in RunChanPairs :
       /\ Consistent(Te)
       /\ original = Snapshot(BaseTouches, cp[1])
       /\ edited = Snapshot(Override(BaseTouches, Te), cp[2])
  /\ diff = NoDiff
  /\ pc = "idle"
  /\ RunIdle
  /\ UIIdle

NextReboot ==
  \/ ApplyDiff
  \/ Detach

SpecReboot == InitReboot /\ [][NextReboot]_vars

---------------------------------------------------------------------------
(* _redact over nested structures of dicts, lists and scalars.  The object *)
(* handed to _redact (in the code, the diff) is in diff; the trace records *)
(* what _redact returned.                                                  *)

MaxDepth == 3        \* nesting depth of a structure

(* Scalars, lists of up to two items and dicts over a secret key and a     *)
(* plain key.                                                              *)
RECURSIVE RedactValues(_)
RedactValues(depth) ==
  LET scalars == {None, PyStr(<<>>), PyStr(<<"x">>), PyInt(0)}
  IN  IF depth = 0 THEN scalars
      ELSE LET V == RedactValues(depth - 1)
           IN  scalars
               \cup {PyList(<<>>), PyDict(<<>>)}
               \cup {PyList(<<a>>) : a \in V}
               \cup {PyList(<<a, b>>) : a \in V, b \in scalars}
               \cup {PyDict(<<Pair("psk", a)>>) : a \in V}
               \cup {PyDict(<<Pair("name", a)>>) : a \in V}
               \cup {PyDict(<<Pair("psk", PyStr(<<"x">>)), Pair("name", a)>>) : a \in V}

InitRedact ==
  /\ original = Snapshot({}, <<>>)
  /\ edited = Snapshot({}, <<>>)
  /\ diff \in RedactValues(MaxDepth)
  /\ pc = "redact"
  /\ RunIdle
  /\ UIIdle

(* _redact(obj)                                                            *)
RedactOnce ==
  /\ pc = "redact"
  /\ trace' = Append(trace, Ev("redacted", "", 0, _redact(diff)))
  /\ pc' = "redacted"
  /\ UNCHANGED <<uiVars, diffVars, report, any_success, reboot_expected, secIdx, chPos, chRes, cli,
                 ifaceOpen, writer_iface, reader_iface, devVer, ifaceCfg, pollLeft>>

(* _redact of what _redact returned.                                       *)
RedactAgain ==
  /\ pc = "redacted"
  /\ trace' = Append(trace, Ev("redacted", "", 0, _redact(trace[1].args)))
  /\ pc' = "redacted_twice"
  /\ UNCHANGED <<uiVars, diffVars, report, any_success, reboot_expected, secIdx, chPos, chRes, cli,
                 ifaceOpen, writer_iface, reader_iface, devVer, ifaceCfg, pollLeft>>

NextRedact ==
  \/ RedactOnce
  \/ RedactAgain

SpecRedact == InitRedact /\ [][NextRedact]_vars

---------------------------------------------------------------------------
(* The application: button handlers and after() callbacks on the UI        *)
(* thread, detect and apply workers on threads of their own.  A worker is  *)
(* a record: its kind, where it is, what it holds of the transport (an     *)
(* open interface, a running external invocation, or nothing), whether its *)
(* run has errors, and the attempt count of its channel refresh.           *)

MaxWorkers == 3      \* worker threads started in one session

max_attempts == 8

(* A worker thread and the callbacks it schedules: where it is, what it    *)
(* holds, whether its report has errors, and of its channel refresh the    *)
(* attempts counted and whether the last snapshot held channels.           *)
Worker(kind) ==
  [kind |-> kind, at |-> "start", holds |-> "none", errors |-> FALSE, attempt |-> 0,
   has_channels |-> FALSE]

(* _set_busy: Detect is disabled while busy; Apply is enabled only when    *)
(* not busy and a model is loaded.                                         *)
_set_busy(busy, orig_model) ==
  [detect |-> IF busy THEN "disabled" ELSE "normal",
   apply |-> IF orig_model THEN (IF busy THEN "disabled" ELSE "normal") ELSE "disabled"]

SetBusy(busy, orig_model) ==
  /\ btn_detect' = _set_busy(busy, orig_model).detect
  /\ btn_apply' = _set_busy(busy, orig_model).apply

(* The UI thread runs one handler or callback at a time.                   *)
UIFree == \A w \in DOMAIN workers : workers[w].at # "tick_open"

InitUI ==
  /\ \E Te \in {{}} \cup {{t} : t \in {u \in RunTouches : u.sec = "Lora"}} :
       /\ original = Snapshot(BaseTouches, <<Channel(0, CHOOSE p \in DeviceChanProfiles : TRUE)>>)
       /\ edited = Snapshot(Override(BaseTouches, Te),
                            <<Channel(0, CHOOSE p \in DeviceChanProfiles : TRUE)>>)
  /\ diff = NoDiff
  /\ pc = "idle"
  /\ RunIdle
  /\ _channel_frames = <<ChannelFrame(0)>>
  /\ btn_detect = "normal"
  /\ btn_apply = "disabled"
  /\ btn_disconnect = "disabled"
  /\ _orig_model = FALSE
  /\ _connected_port = FALSE
  /\ settings_dc = FALSE
  /\ workers = <<>>
  /\ auto_pending \in BOOLEAN

(* _on_detect_clicked, from the button.                                    *)
ClickDetect ==
  /\ UIFree
  /\ btn_detect = "normal"
  /\ Len(workers) < MaxWorkers
  /\ SetBusy(TRUE, _orig_model)
  /\ workers' = Append(workers, Worker("detect"))
  /\ UNCHANGED <<diffVars, pc, runVars, _channel_frames, btn_disconnect, _orig_model, _connected_port,
                 settings_dc, auto_pending>>

(* The after(500, _on_detect_clicked) of __init__ when a port is           *)
(* remembered: the handler is called whatever the button's state.          *)
AutoDetect ==
  /\ UIFree
  /\ auto_pending
  /\ Len(workers) < MaxWorkers
  /\ auto_pending' = FALSE
  /\ SetBusy(TRUE, _orig_model)
  /\ workers' = Append(workers, Worker("detect"))
  /\ UNCHANGED <<diffVars, pc, runVars, _channel_frames, btn_disconnect, _orig_model, _connected_port,
                 settings_dc>>

(* _on_apply_clicked with valid channel keys.                              *)
ClickApply ==
  /\ UIFree
  /\ btn_apply = "normal"
  /\ Len(workers) < MaxWorkers
  /\ SetBusy(TRUE, _orig_model)
  /\ workers' = Append(workers, Worker("apply"))
  /\ UNCHANGED <<diffVars, pc, runVars, _channel_frames, btn_disconnect, _orig_model, _connected_port,
                 settings_dc, auto_pending>>

(* _on_disconnect_clicked: _refresh_job, _apply_cancel, _apply_thread and  *)
(* the holders it looks for are attributes the App never sets, so no       *)
(* worker is stopped and nothing is closed; the state is reset and         *)
(* _set_busy(False) is called.                                             *)
ClickDisconnect ==
  /\ UIFree
  /\ btn_disconnect = "normal"
  /\ _connected_port' = FALSE
  /\ _orig_model' = FALSE
  /\ SetBusy(FALSE, FALSE)
  /\ btn_disconnect' = "disabled"
  /\ UNCHANGED <<diffVars, pc, runVars, _channel_frames, settings_dc, workers, auto_pending>>

(* _detect_worker: connect_autodetect_if_single (and connect_explicit      *)
(* after the port dialog) reuses settings._dc or opens a DeviceController. *)
DetectConnect ==
  \E w \in DOMAIN workers :
    /\ workers[w].kind = "detect" /\ workers[w].at = "start"
    /\ \E ok \in BOOLEAN :
         IF settings_dc \/ ok
         THEN /\ settings_dc' = TRUE
              /\ workers' = [workers EXCEPT ![w].at = "fetch", ![w].holds = "open"]
              /\ UNCHANGED <<btn_detect, btn_apply>>
         ELSE /\ SetBusy(FALSE, _orig_model)
              /\ workers' = [workers EXCEPT ![w].at = "done"]
              /\ UNCHANGED settings_dc
    /\ UNCHANGED <<diffVars, pc, runVars, _channel_frames, btn_disconnect, _orig_model, _connected_port,
                   auto_pending>>

(* _detect_worker: the port is kept, fetch_device_model(close_after_fetch) *)
(* reads a snapshot and closes settings._dc; _apply_ui is scheduled.  A    *)
(* failed read leaves settings._dc as it is.                               *)
DetectFetch ==
  \E w \in DOMAIN workers :
    /\ workers[w].kind = "detect" /\ workers[w].at = "fetch"
    /\ _connected_port' = TRUE
    /\ \E ok \in BOOLEAN :
         IF settings_dc /\ ok
         THEN /\ settings_dc' = FALSE
              /\ _orig_model' = TRUE
              /\ workers' = [workers EXCEPT ![w].at = "apply_ui", ![w].holds = "none"]
              /\ UNCHANGED <<btn_detect, btn_apply>>
         ELSE /\ SetBusy(FALSE, _orig_model)
              /\ workers' = [workers EXCEPT ![w].at = "done", ![w].holds = "none"]
              /\ UNCHANGED <<settings_dc, _orig_model>>
    /\ UNCHANGED <<diffVars, pc, runVars, _channel_frames, btn_disconnect, auto_pending>>

(* _apply_ui, on the UI thread.                                            *)
DetectApplyUi ==
  \E w \in DOMAIN workers :
    /\ UIFree
    /\ workers[w].kind = "detect" /\ workers[w].at = "apply_ui"
    /\ btn_disconnect' = "normal"
    /\ SetBusy(FALSE, _orig_model)
    /\ workers' = [workers EXCEPT ![w].at = "done"]
    /\ UNCHANGED <<diffVars, pc, runVars, _channel_frames, _orig_model, _connected_port, settings_dc,
                   auto_pending>>

(* _apply_worker: without a port or a model it fails at once; otherwise it *)
(* builds the edited model and opens a DeviceController on the port.       *)
ApplyStart ==
  \E w \in DOMAIN workers :
    /\ workers[w].kind = "apply" /\ workers[w].at = "start"
    /\ \E ok \in BOOLEAN :
         IF _connected_port /\ _orig_model /\ ok
         THEN /\ workers' = [workers EXCEPT ![w].at = "open", ![w].holds = "open"]
              /\ UNCHANGED <<btn_detect, btn_apply>>
         ELSE /\ SetBusy(FALSE, _orig_model)
              /\ workers' = [workers EXCEPT ![w].at = "done"]
    /\ UNCHANGED <<diffVars, pc, runVars, _channel_frames, btn_disconnect, _orig_model, _connected_port,
                   settings_dc, auto_pending>>

(* apply_from_models, lines 51-58: the no-change return, or the detach.    *)
ApplyDetach ==
  \E w \in DOMAIN workers :
    /\ workers[w].kind = "apply" /\ workers[w].at = "open"
    /\ LET d == _build_diff(original, edited)
       IN  IF ~(\E sec \in DOMAIN d : Truthy(d[sec]))
           THEN workers' = [workers EXCEPT ![w].at = "no_change"]
           ELSE workers' = [workers EXCEPT ![w].at = "detached", ![w].holds = "none"]
    /\ UNCHANGED <<diffVars, pc, runVars, _channel_frames, btn_detect, btn_apply, btn_disconnect, _orig_model,
                   _connected_port, settings_dc, auto_pending>>

(* One external invocation of the section loop starts.                     *)
ApplyCliStart ==
  \E w \in DOMAIN workers :
    /\ workers[w].kind = "apply" /\ workers[w].at = "detached"
    /\ workers' = [workers EXCEPT ![w].at = "cli", ![w].holds = "cli"]
    /\ UNCHANGED <<diffVars, pc, runVars, _channel_frames, btn_detect, btn_apply, btn_disconnect, _orig_model,
                   _connected_port, settings_dc, auto_pending>>

(* The invocation returns; a failure ends the loop with an error.          *)
ApplyCliEnd ==
  \E w \in DOMAIN workers :
    /\ workers[w].kind = "apply" /\ workers[w].at = "cli"
    /\ \E rc \in ReturnCodes :
         workers' = [workers EXCEPT ![w].at = IF rc = 0 THEN "detached" ELSE "reconnect",
                                    ![w].holds = "none",
                                    ![w].errors = (rc # 0)]
    /\ UNCHANGED <<diffVars, pc, runVars, _channel_frames, btn_detect, btn_apply, btn_disconnect, _orig_model,
                   _connected_port, settings_dc, auto_pending>>

(* Lines 97-105: the reconnect and the snapshot, either of which may fail. *)
ApplyReconnect ==
  \E w \in DOMAIN workers :
    /\ workers[w].kind = "apply" /\ workers[w].at \in {"detached", "reconnect"}
    /\ \E opened \in BOOLEAN, snap \in BOOLEAN :
         workers' = [workers EXCEPT ![w].at = "reconnected",
                                    ![w].holds = IF opened THEN "open" ELSE "none",
                                    ![w].errors = (@ \/ ~opened \/ ~snap)]
    /\ UNCHANGED <<diffVars, pc, runVars, _channel_frames, btn_detect, btn_apply, btn_disconnect, _orig_model,
                   _connected_port, settings_dc, auto_pending>>

(* Lines 107-111: the final detach; the report is returned.                *)
ApplyReturn ==
  \E w \in DOMAIN workers :
    /\ workers[w].kind = "apply" /\ workers[w].at = "reconnected"
    /\ workers' = [workers EXCEPT ![w].at = "returned", ![w].holds = "none"]
    /\ UNCHANGED <<diffVars, pc, runVars, _channel_frames, btn_detect, btn_apply, btn_disconnect, _orig_model,
                   _connected_port, settings_dc, auto_pending>>

(* _apply_worker after the run: the model is the report's snapshot or one  *)
(* read from dc.reader (a read that raises ends in the except clause).     *)
(* With errors _set_busy(False) comes before the model is stored; without, *)
(* the model is stored and, unless the status is no_change, the channel    *)
(* refresh is scheduled.                                                   *)
ApplyFinish ==
  \E w \in DOMAIN workers :
    /\ workers[w].kind = "apply" /\ workers[w].at \in {"returned", "no_change"}
    /\ \E read \in BOOLEAN :
         IF ~read
         THEN /\ SetBusy(FALSE, _orig_model)
              /\ workers' = [workers EXCEPT ![w].at = "done", ![w].holds = "none"]
              /\ UNCHANGED _orig_model
         ELSE IF workers[w].errors
         THEN /\ SetBusy(FALSE, _orig_model)
              /\ _orig_model' = TRUE
              /\ workers' = [workers EXCEPT ![w].at = "done"]
         ELSE IF workers[w].at = "no_change"
         THEN /\ _orig_model' = TRUE
              /\ SetBusy(FALSE, TRUE)
              /\ workers' = [workers EXCEPT ![w].at = "done", ![w].holds = "none"]
         ELSE /\ _orig_model' = TRUE
              /\ workers' = [workers EXCEPT ![w].at = "refresh"]
              /\ UNCHANGED <<btn_detect, btn_apply>>
    /\ UNCHANGED <<diffVars, pc, runVars, _channel_frames, btn_disconnect, _connected_port, settings_dc,
                   auto_pending>>

(* _begin_channels_refresh_retry, on the UI thread.                        *)
BeginRefresh ==
  \E w \in DOMAIN workers :
    /\ UIFree
    /\ workers[w].at = "refresh"
    /\ SetBusy(TRUE, _orig_model)
    /\ workers' = [workers EXCEPT ![w].at = "tick_wait", ![w].attempt = 0]
    /\ UNCHANGED <<diffVars, pc, runVars, _channel_frames, btn_disconnect, _orig_model, _connected_port,
                   settings_dc, auto_pending>>

(* The end of a _tick that found no channels: again after the interval, or *)
(* give up and enable Apply.                                               *)
TickRetry(w) ==
  IF workers[w].attempt + 1 < max_attempts
  THEN /\ workers' = [workers EXCEPT ![w].at = "tick_wait", ![w].holds = "none",
                                     ![w].attempt = @ + 1]
       /\ UNCHANGED <<btn_detect, btn_apply>>
  ELSE /\ workers' = [workers EXCEPT ![w].at = "done", ![w].holds = "none",
                                     ![w].attempt = @ + 1]
       /\ btn_detect' = "normal"
       /\ btn_apply' = "normal"

(* _tick, first half: without a port it returns for good; otherwise it     *)
(* opens a DeviceController on the UI thread.                              *)
TickOpen ==
  \E w \in DOMAIN workers :
    /\ UIFree
    /\ workers[w].at = "tick_wait"
    /\ IF ~_connected_port
       THEN /\ workers' = [workers EXCEPT ![w].at = "done"]
            /\ UNCHANGED <<btn_detect, btn_apply>>
       ELSE \E ok \in BOOLEAN :
              IF ok
              THEN /\ workers' = [workers EXCEPT ![w].at = "tick_open", ![w].holds = "open"]
                   /\ UNCHANGED <<btn_detect, btn_apply>>
              ELSE TickRetry(w)
    /\ UNCHANGED <<diffVars, pc, runVars, _channel_frames, btn_disconnect, _orig_model, _connected_port,
                   settings_dc, auto_pending>>

(* _tick, second half: the snapshot, dc.close(), and the model and the     *)
(* buttons when channels were read.                                        *)
TickClose ==
  \E w \in DOMAIN workers :
    /\ workers[w].at = "tick_open"
    /\ \E has_channels \in BOOLEAN :
         IF has_channels
         THEN /\ _orig_model' = TRUE
              /\ btn_detect' = "normal"
              /\ btn_apply' = "normal"
              /\ workers' = [workers EXCEPT ![w].at = "done", ![w].holds = "none",
                                            ![w].has_channels = TRUE]
         ELSE /\ TickRetry(w)
              /\ UNCHANGED _orig_model
    /\ UNCHANGED <<diffVars, pc, runVars, _channel_frames, btn_disconnect, _connected_port, settings_dc,
                   auto_pending>>

NextUI ==
  \/ ClickDetect
  \/ AutoDetect
  \/ ClickApply
  \/ ClickDisconnect
  \/ DetectConnect
  \/ DetectFetch
  \/ DetectApplyUi
  \/ ApplyStart
  \/ ApplyDetach
  \/ ApplyCliStart
  \/ ApplyCliEnd
  \/ ApplyReconnect
  \/ ApplyReturn
  \/ ApplyFinish
  \/ BeginRefresh
  \/ TickOpen
  \/ TickClose

SpecUI == InitUI /\ [][NextUI]_vars

(* What runs without the user: the worker threads, and the callbacks the   *)
(* Tk main loop was handed by after().  A click may never come.  The       *)
(* section loop is over a finite plan, so it is left for the reconnect.    *)
Scheduled ==
  \/ AutoDetect
  \/ DetectConnect
  \/ DetectFetch
  \/ DetectApplyUi
  \/ ApplyStart
  \/ ApplyDetach
  \/ ApplyCliStart
  \/ ApplyCliEnd
  \/ ApplyReconnect
  \/ ApplyReturn
  \/ ApplyFinish
  \/ BeginRefresh
  \/ TickOpen
  \/ TickClose

SpecUILive == SpecUI /\ WF_vars(Scheduled) /\ SF_vars(ApplyReconnect)

---------------------------------------------------------------------------
(* The channels panel (src/ui/panels/channels_panel.py): its rows and the  *)
(* channel list collect_meshchannels makes of them.  A row is the record   *)
(* ChannelFrame builds; exists is what winfo_exists() answers.             *)

MaxRow == 3         \* highest index a row is created with

(* The highest index a row can have: created here or read from the device. *)
TopRow == IF MaxIndex > MaxRow THEN MaxIndex ELSE MaxRow

(* _get_channel_frame: the position of the first live row of index, 0 for  *)
(* None.                                                                   *)
_get_channel_frame(frames, index) ==
  LET hits == {p \in DOMAIN frames : frames[p].index = index /\ frames[p].exists}
  IN  IF hits = {} THEN 0 ELSE CHOOSE p \in hits : \A q \in hits : p <= q

(* _apply_channel_to_frame(cf, ch); ch is a channel of a model, or the     *)
(* empty dict for None.                                                    *)
_apply_channel_to_frame(cf, ch) ==
  IF DOMAIN ch = {}
  THEN [cf EXCEPT !.name_var = <<>>, !.gps_var = FALSE, !.precision_var = <<"0">>,
                  !.uplink_var = FALSE, !.downlink_var = FALSE, !.key_var = <<>>]
  ELSE LET bool(v) == (v.k \in {"bool", "int"} /\ v.n # 0) \/ (v.k = "str" /\ v.s # <<>>)
           prec == IF bool(Get(ch, "position_precision")) THEN Get(ch, "position_precision").n ELSE 0
       IN  [cf EXCEPT !.name_var = IF bool(Get(ch, "name")) THEN Get(ch, "name").s ELSE <<>>,
                      !.gps_var = prec > 0,
                      !.precision_var = Digits(prec),
                      !.uplink_var = bool(Get(ch, "uplink_enabled")),
                      !.downlink_var = bool(Get(ch, "downlink_enabled")),
                      !.key_var = ToStr(Get(ch, "psk"))]

(* _delete_channel_row: the row is destroyed and leaves the list.          *)
_delete_channel_row(frames, index_to_delete) ==
  IF _get_channel_frame(frames, index_to_delete) = 0 THEN frames
  ELSE SelectSeq(frames, LAMBDA cf : cf.index # index_to_delete)

(* apply_model(model) for model.MeshChannels = channels.  psk_present of a *)
(* channel read from the device is bool(psk) (device_reader.py line 170).  *)
apply_model(frames, channels) ==
  IF channels = <<>> THEN frames
  ELSE
    LET bool(v) == (v.k \in {"bool", "int"} /\ v.n # 0) \/ (v.k = "str" /\ v.s # <<>>)
        chAt(idx) ==
          LET at == {i \in DOMAIN channels : ChIndex(channels[i]) = idx}
          IN  IF at = {} THEN EmptyDict ELSE channels[CHOOSE i \in at : \A j \in at : i <= j]
        _is_nonempty_channel(ch) ==
          \/ Get(ch, "name") # None /\ Strip(Get(ch, "name").s) # <<>>
          \/ bool(Get(ch, "position_precision"))
          \/ bool(Get(ch, "uplink_enabled"))
          \/ bool(Get(ch, "downlink_enabled"))
          \/ bool(Get(ch, "psk"))
        with0 == IF _get_channel_frame(frames, 0) = 0 THEN Append(frames, ChannelFrame(0))
                 ELSE frames
        primary == [with0 EXCEPT ![_get_channel_frame(with0, 0)] =
                                    _apply_channel_to_frame(@, chAt(0))]
        target == {ChIndex(channels[i]) : i \in {j \in DOMAIN channels :
                     ChIndex(channels[j]) >= 1 /\ _is_nonempty_channel(channels[j])}}
        current == {primary[p].index : p \in {q \in DOMAIN primary :
                      primary[q].index >= 1 /\ primary[q].exists}}
        kept == SelectSeq(primary, LAMBDA cf : cf.index \notin (current \ target))
        RECURSIVE fill(_, _)
        fill(fr, idx) ==
          IF idx > TopRow THEN fr
          ELSE IF idx \notin target THEN fill(fr, idx + 1)
          ELSE LET added == IF _get_channel_frame(fr, idx) = 0 THEN Append(fr, ChannelFrame(idx))
                            ELSE fr
               IN  fill([added EXCEPT ![_get_channel_frame(added, idx)] =
                                         _apply_channel_to_frame(@, chAt(idx))], idx + 1)
    IN  fill(kept, 1)

(* preset_apply(section_fields): sections is the dict as the sequence of   *)
(* its items, <<index of the section, text of its Name field>>.            *)
RECURSIVE preset_apply(_, _)
preset_apply(frames, sections) ==
  IF sections = <<>> THEN frames
  ELSE LET idx == Head(sections)[1]
           added == IF idx >= 1 /\ _get_channel_frame(frames, idx) = 0
                    THEN Append(frames, ChannelFrame(idx)) ELSE frames
           p == _get_channel_frame(added, idx)
       IN  preset_apply(IF p = 0 THEN added ELSE [added EXCEPT ![p].name_var = Head(sections)[2]],
                        Tail(sections))

(* clear_ui                                                                *)
clear_ui(frames) ==
  LET with0 == IF _get_channel_frame(frames, 0) = 0 THEN Append(frames, ChannelFrame(0))
               ELSE frames
      primary == [with0 EXCEPT ![_get_channel_frame(with0, 0)] =
                                  _apply_channel_to_frame(@, EmptyDict)]
  IN  SelectSeq(primary, LAMBDA cf : cf.index = 0 /\ cf.exists)

(* The index _on_add_channel_clicked gives the new row.                    *)
next_idx(frames) ==
  CHOOSE n \in 1..(Len(frames) + 1) :
    /\ \A p \in DOMAIN frames : frames[p].index # n
    /\ \A m \in 1..(n - 1) : \E p \in DOMAIN frames : frames[p].index = m

(* A collect that leaves every row the index it was created with.          *)
collect_meshchannels_stale_indices(frames) ==
  LET RECURSIVE sorted(_)
      sorted(index) ==
        IF index > TopRow THEN <<>>
        ELSE SelectSeq(frames, LAMBDA cf : cf.index = index) \o sorted(index + 1)
      RECURSIVE rows(_)
      rows(rest) ==
        IF rest = <<>> THEN <<>>
        ELSE LET cf == Head(rest)
             IN  IF ~cf.exists THEN rows(Tail(rest))
                 ELSE <<Channel(cf.index,
                          [name |-> IF Strip(cf.name_var) = <<>> THEN None
                                    ELSE PyStr(Strip(cf.name_var)),
                           psk |-> PyStr(Strip(cf.key_var)),
                           uplink_enabled |-> PyBool(cf.uplink_var),
                           downlink_enabled |-> PyBool(cf.downlink_var),
                           position_precision |->
                             PyInt(IF cf.gps_var THEN ToInt(Strip(cf.precision_var)) ELSE 0)])>>
                      \o rows(Tail(rest))
  IN  rows(sorted(0))

(* collect_meshchannels: the rows in the order of their index (sorted is   *)
(* stable), a destroyed row passed over, the primary row as index 0 and    *)
(* the others numbered from 1 by sec_idx.                                  *)
collect_meshchannels(frames) ==
  LET RECURSIVE sorted(_)
      sorted(index) ==
        IF index > TopRow THEN <<>>
        ELSE SelectSeq(frames, LAMBDA cf : cf.index = index) \o sorted(index + 1)
      RECURSIVE rows(_, _)
      rows(rest, sec_idx) ==
        IF rest = <<>> THEN <<>>
        ELSE LET cf == Head(rest)
                 idx == IF cf.index = 0 THEN 0 ELSE sec_idx
             IN  IF ~cf.exists THEN rows(Tail(rest), sec_idx)
                 ELSE <<Channel(idx,
                          [name |-> IF Strip(cf.name_var) = <<>> THEN None
                                    ELSE PyStr(Strip(cf.name_var)),
                           psk |-> PyStr(Strip(cf.key_var)),
                           uplink_enabled |-> PyBool(cf.uplink_var),
                           downlink_enabled |-> PyBool(cf.downlink_var),
                           position_precision |->
                             PyInt(IF cf.gps_var THEN ToInt(Strip(cf.precision_var)) ELSE 0)])>>
                      \o rows(Tail(rest), IF cf.index # 0 THEN sec_idx + 1 ELSE sec_idx)
  IN  rows(sorted(0), 1)

(* The presets loaded: sections in the order of the preset file.           *)
Presets ==
  { <<(<<MaxRow, <<"B">>>>)>>,
    <<(<<0, <<"B", " ">>>>)>>,
    <<(<<2, <<"B">>>>), <<1, <<"A">>>>>> }

(* The window after build(): the primary row alone.                        *)
InitPanel ==
  /\ original = Snapshot({}, <<>>)
  /\ edited = Snapshot({}, <<>>)
  /\ diff = NoDiff
  /\ pc = "panel"
  /\ RunIdle
  /\ UIIdle

(* A handler of the panel leaves the rows frames.                           *)
PanelStep(frames) ==
  /\ _channel_frames' = frames
  /\ UNCHANGED <<diffVars, pc, runVars, btn_detect, btn_apply, btn_disconnect, _orig_model,
                 _connected_port, settings_dc, workers, auto_pending>>

(* The + Add Channel button.                                               *)
AddChannelClicked ==
  /\ pc = "panel"
  /\ next_idx(_channel_frames) <= MaxRow
  /\ PanelStep(Append(_channel_frames, ChannelFrame(next_idx(_channel_frames))))

(* The Delete button of a secondary row.                                   *)
DeleteClicked ==
  \E p \in DOMAIN _channel_frames :
    /\ pc = "panel"
    /\ _channel_frames[p].index # 0
    /\ PanelStep(_delete_channel_row(_channel_frames, _channel_frames[p].index))

(* A snapshot read from the device is shown.                               *)
ApplyModel ==
  /\ pc = "panel"
  /\ \E channels \in DeviceChanLists : PanelStep(apply_model(_channel_frames, channels))

LoadPreset ==
  /\ pc = "panel"
  /\ \E sections \in Presets : PanelStep(preset_apply(_channel_frames, sections))

ClearUi ==
  /\ pc = "panel"
  /\ PanelStep(clear_ui(_channel_frames))

(* The edited model takes the channels the panel collects.                 *)
CollectChannels ==
  /\ pc = "panel"
  /\ edited' = [edited EXCEPT !.MeshChannels = collect_meshchannels(_channel_frames)]
  /\ pc' = "collected"
  /\ UNCHANGED <<original, diff, runVars, uiVars>>

NextPanel ==
  \/ AddChannelClicked
  \/ DeleteClicked
  \/ ApplyModel
  \/ LoadPreset
  \/ ClearUi
  \/ CollectChannels

SpecPanel == InitPanel /\ [][NextPanel]_vars

---------------------------------------------------------------------------
(* Properties of the diff (checked under SpecDiff).                        *)

ChanIndices(list) == {ChIndex(list[i]) : i \in DOMAIN list}

(* The (snapshot section, diff section, field map) triples of the generic  *)
(* sections.                                                               *)
GenericSections ==
  { <<"Device", "device", DEVICE_MAP>>, <<"Lora", "lora", LORA_MAP>>,
    <<"Power", "power", POWER_MAP>>, <<"Position", "position", POSITION_MAP>>,
    <<"Display", "display", DISPLAY_MAP>>, <<"BlueTooth", "bluetooth", BLUETOOTH_MAP>>,
    <<"Network", "network", NETWORK_MAP>> }

AbsentSkippedInSections ==
  /\ \A g \in GenericSections : \A i \in 1..Len(g[3]) :
        Get(edited[g[1]], g[3][i][1]) = None => g[3][i][2] \notin DOMAIN diff[g[2]]
  /\ Get(edited.UserInfo, "longName") = None => "owner_long" \notin DOMAIN diff.owner
  /\ Get(edited.UserInfo, "shortName") = None => "owner_short" \notin DOMAIN diff.owner
  /\ \A m \in 1..Len(MODULE_MAPS) : \A i \in 1..Len(MODULE_MAPS[m][2]) :
        Get(GetDict(edited.ModuleConfig, MODULE_MAPS[m][1]), MODULE_MAPS[m][2][i][1]) = None
          => MODULE_MAPS[m][2][i][2] \notin DOMAIN diff.modules

AbsentSkippedInChannels(pairs) ==
  \A u \in 1..Len(diff.channels.upserts) : \A f \in pairs :
    LET up == diff.channels.upserts[u]
    IN  Get(by_idx(edited.MeshChannels)[up.index], f[1]) = None => f[2] \notin DOMAIN up.fields

ChannelFieldPairs == {<<"name", "name">>} \cup {CH_FIELDS[i] : i \in 1..Len(CH_FIELDS)}

C9_EqualSnapshotsEmptyDiff ==
  (pc = "diffed" /\ edited = original) =>
    /\ \A sec \in DOMAIN diff \ {"channels"} : ~Truthy(diff[sec])
    /\ diff.channels.deletes = <<>>
    /\ diff.channels.upserts = <<>>

(* Equal snapshots with channels that carry a key have been diffed.        *)
C9_Witness ==
  /\ pc = "diffed"
  /\ edited = original
  /\ Len(edited.MeshChannels) = MaxChans
  /\ \E i \in DOMAIN edited.MeshChannels : Get(edited.MeshChannels[i], "psk") # None

(* C10: deletes lists exactly the indices of original that are not in      *)
(* edited, without index 0, in strictly descending order.                  *)
C10_DeletesExactDescending ==
  pc = "diffed" =>
    LET deletes == diff.channels.deletes
    IN  /\ {deletes[i] : i \in DOMAIN deletes}
             = (ChanIndices(original.MeshChannels) \ ChanIndices(edited.MeshChannels)) \ {0}
        /\ \A i, j \in DOMAIN deletes : i < j => deletes[i] > deletes[j]
        /\ \A i \in DOMAIN deletes : deletes[i] # 0

(* The diff of two channel lists deletes two indices.                      *)
C10_Witness ==
  /\ pc = "diffed"
  /\ Len(diff.channels.deletes) >= 2

(* The diff with every sensitive value (a channel psk, network.wifi_psk,   *)
(* bluetooth.fixed_pin, mqtt.password) replaced by one fixed text: two     *)
(* diffs that differ only in sensitive values have the same scrubbed diff. *)
ScrubbedDict(d, keys) == [key \in DOMAIN d |-> IF key \in keys THEN PyStr(<<"*">>) ELSE d[key]]

ScrubbedDiff(d) ==
  [d EXCEPT !.network = ScrubbedDict(@, {"network.wifi_psk"}),
            !.bluetooth = ScrubbedDict(@, {"bluetooth.fixed_pin"}),
            !.modules = ScrubbedDict(@, {"mqtt.password"}),
            !.channels.upserts =
               [u \in 1..Len(@) |-> [@[u] EXCEPT !.fields = ScrubbedDict(@, {"psk"})]]]

(* The "updates" record of the log.                                        *)
LoggedUpdates == trace[Len(trace)].args

(* C22: the text of the diff written to the log is the same for any two    *)
(* diffs that differ only in the values of sensitive fields: it equals the *)
(* text logged for the diff with its sensitive values scrubbed.            *)
C22_LoggedDiffHidesSensitiveValues ==
  pc = "diffed" => LoggedUpdates = logged_updates(ScrubbedDiff(diff))

OrigAbsent(idx, key) ==
  \/ idx \notin ChanIndices(original.MeshChannels)
  \/ Get(by_idx(original.MeshChannels)[idx], key) = None

(* C11: where the original has no value for uplink_enabled,                *)
(* downlink_enabled or position_precision, an edited value equal to the    *)
(* default (false, false, 0) is not written, and every upsert of the plan  *)
(* carries at least one field.                                             *)
C11_DefaultNoiseSuppressed ==
  pc = "diffed" =>
    \A u \in 1..Len(diff.channels.upserts) :
      LET up == diff.channels.upserts[u]
          ed == by_idx(edited.MeshChannels)[up.index]
      IN  /\ DOMAIN up.fields # {}
          /\ (OrigAbsent(up.index, "uplink_enabled") /\ PyEq(Get(ed, "uplink_enabled"), False))
                => "uplink_enabled" \notin DOMAIN up.fields
          /\ (OrigAbsent(up.index, "downlink_enabled") /\ PyEq(Get(ed, "downlink_enabled"), False))
                => "downlink_enabled" \notin DOMAIN up.fields
          /\ (OrigAbsent(up.index, "position_precision")
                 /\ PyEq(Get(ed, "position_precision"), PyInt(0)))
                => "module_settings.position_precision" \notin DOMAIN up.fields

(* A new index whose flags and precision are the defaults has an upsert    *)
(* for its name, and another new index with nothing but defaults has none. *)
C11_Witness ==
  /\ pc = "diffed"
  /\ \E u \in 1..Len(diff.channels.upserts) :
        LET up == diff.channels.upserts[u]
            ed == by_idx(edited.MeshChannels)[up.index]
        IN  /\ up.index \notin ChanIndices(original.MeshChannels)
            /\ Get(ed, "uplink_enabled") = False
            /\ Get(ed, "downlink_enabled") = False
            /\ Get(ed, "position_precision") = PyInt(0)
            /\ DOMAIN up.fields = {"name"}
  /\ \E idx \in ChanIndices(edited.MeshChannels) \ ChanIndices(original.MeshChannels) :
        \A u \in 1..Len(diff.channels.upserts) : diff.channels.upserts[u].index # idx

PskPresent(ch) == Get(ch, "psk") # None /\ Strip(Get(ch, "psk").s) # <<>>

(* The fields expected for a channel of a new index: the name when set,    *)
(* the key when not blank, a flag or the precision when set and not the    *)
(* default.                                                                *)
NewChannelKeys(ch) ==
  {key \in {"psk"} : PskPresent(ch)}
  \cup {key \in {"name"} : Get(ch, "name") # None}
  \cup {key \in {"uplink_enabled"} :
          Get(ch, "uplink_enabled") # None /\ ~PyEq(Get(ch, "uplink_enabled"), False)}
  \cup {key \in {"downlink_enabled"} :
          Get(ch, "downlink_enabled") # None /\ ~PyEq(Get(ch, "downlink_enabled"), False)}
  \cup {key \in {"module_settings.position_precision"} :
          Get(ch, "position_precision") # None /\ ~PyEq(Get(ch, "position_precision"), PyInt(0))}

NewChannelValue(ch, key) ==
  CASE key = "psk" -> PyStr(Strip(Get(ch, "psk").s))
    [] key = "module_settings.position_precision" -> Get(ch, "position_precision")
    [] OTHER -> Get(ch, key)

---------------------------------------------------------------------------
(* Properties of an apply run (checked under Spec).                        *)

DiffIsEmpty ==
  /\ \A sec \in DOMAIN diff : sec # "channels" => ~Truthy(diff[sec])
  /\ diff.channels.deletes = <<>>
  /\ diff.channels.upserts = <<>>

(* C1: when every section changeset and the channel plan are empty, the    *)
(* run ends with status no_change and no section entry, and it has done    *)
(* nothing to the connection: no detach, no reconnect, no invocation.      *)
C1_EmptyDiffShortCircuits ==
  (pc # "idle" /\ DiffIsEmpty) =>
    /\ pc = "returned"
    /\ report.status = "no_change"
    /\ report.sections = EmptyDict
    /\ trace = <<>>
    /\ ifaceOpen[writer_iface]

C3_Order ==
  <<"device", "owner", "lora", "power", "position", "display", "bluetooth", "network",
    "channels", "modules">>

C3_Rank(sec) == CHOOSE i \in 1..Len(C3_Order) : C3_Order[i] = sec

Failed(sec) == sec \in DOMAIN report.sections /\ report.sections[sec].status \in {"error", "timeout"}

Started(sec) == \E k \in 1..Len(trace) : trace[k].op = "cli_start" /\ trace[k].sec = sec

C2_AbortState ==
  \A i \in 1..Len(C3_Order) :
    Failed(C3_Order[i]) =>
      /\ report.status = "error"
      /\ \E k \in 1..Len(report.errors) : report.errors[k] = C3_Order[i]
      /\ \A j \in (i + 1)..Len(C3_Order) :
            C3_Order[j] \notin DOMAIN report.sections /\ ~Started(C3_Order[j])

C2_ResultsKept ==
  \A sec \in DOMAIN report.sections :
    sec \in DOMAIN report'.sections /\ report'.sections[sec] = report.sections[sec]

(* C2: a section result of error or timeout is in the report and in the    *)
(* errors list, the overall status is error, no later section of the fixed *)
(* order has an entry or an invocation, and an entry once recorded is      *)
(* never changed or removed.                                               *)
C2_FailureAbortsRun == [](C2_AbortState) /\ [][C2_ResultsKept]_vars

C2_Witness ==
  /\ pc = "returned"
  /\ \E i, j, k \in 1..Len(C3_Order) :
        /\ i < j /\ j < k
        /\ C3_Order[i] \in DOMAIN report.sections /\ report.sections[C3_Order[i]].status = "success"
        /\ Failed(C3_Order[j])
        /\ Truthy(diff[C3_Order[k]])

(* C3: invocations start in the fixed section order, each one has returned *)
(* before the next one starts, and at most one is in progress.             *)
C3_SectionsInOrderOneAtATime ==
  /\ \A i, j \in 1..Len(trace) :
        (i < j /\ trace[i].op = "cli_start" /\ trace[j].op = "cli_start") =>
          /\ C3_Rank(trace[i].sec) <= C3_Rank(trace[j].sec)
          /\ \E k \in (i + 1)..(j - 1) : trace[k].op = "cli_end" /\ trace[k].sec = trace[i].sec
  /\ \A i \in 1..Len(trace) :
        trace[i].op = "cli_start" =>
          IF i = Len(trace) THEN cli = [sec |-> trace[i].sec, args |-> trace[i].args]
          ELSE trace[i + 1].op = "cli_end" /\ trace[i + 1].sec = trace[i].sec
  /\ (cli # NoCli) => (trace # <<>> /\ trace[Len(trace)].op = "cli_start")
  /\ \A sec \in DOMAIN report.sections : pc \notin {"idle", "detach"} /\ C3_Rank(sec) <= secIdx

C3_Witness ==
  /\ pc = "returned"
  /\ \E i, j, k, l \in 1..Len(trace) :
        /\ i < j /\ j < k /\ k < l
        /\ trace[i].op = "cli_start" /\ trace[i].sec = "device"
        /\ trace[j].op = "cli_start" /\ trace[j].sec = "lora"
        /\ trace[k].op = "cli_start" /\ trace[k].sec = "channels"
        /\ trace[l].op = "cli_start" /\ trace[l].sec = "channels"

C6_RunEndsDetached ==
  (pc \in {"returned", "raised"} /\ report.status # "no_change") =>
    /\ trace # <<>>
    /\ trace[Len(trace)].op = "detach"
    /\ trace[Len(trace)].n = writer_iface
    /\ \A h \in Handles : ~ifaceOpen[h]

C6_Witness ==
  /\ pc = "returned"
  /\ report.status = "error"
  /\ \E k \in 1..Len(report.errors) : report.errors[k] = "reconnect_or_snapshot"
  /\ \E k \in 1..Len(trace) : trace[k].op = "open"

(* C7: the snapshot in the report was read through the interface opened by *)
(* this run's reconnect, and shows the device as the commands left it.     *)
C7_SnapshotThroughReopenedInterface ==
  report.post_snapshot.set =>
    /\ report.post_snapshot.via = writer_iface
    /\ \E k \in 1..Len(trace) : trace[k].op = "open" /\ trace[k].n = report.post_snapshot.via
    /\ report.post_snapshot.ver = devVer

(* The channel invocations of the run, in the order they were started.     *)
ChannelInvocations ==
  LET isCh(e) == e.op = "cli_start" /\ e.sec = "channels"
  IN  SelectSeq(trace, isCh)

IsDeleteInvocation(e) == e.args = <<(<<"--ch-index">>), Digits(e.n), <<"--ch-del">>>>

(* The indices of the channel plan, deletes first.                         *)
PlannedChannelOps ==
  diff.channels.deletes
    \o [u \in 1..Len(diff.channels.upserts) |-> diff.channels.upserts[u].index]

ChannelsRecorded == "channels" \in DOMAIN report.sections

(* C13: the channels section makes one invocation per delete, in           *)
(* descending index order, then one per upsert, in ascending index order;  *)
(* no upsert is invoked before a delete.                                   *)
C13_DeletesDescendingThenUpsertsAscending ==
  pc # "idle" =>
    LET inv == ChannelInvocations
    IN  /\ \A i, j \in 1..Len(inv) :
             i < j =>
               /\ IsDeleteInvocation(inv[j]) =>
                    IsDeleteInvocation(inv[i]) /\ inv[i].n > inv[j].n
               /\ ~IsDeleteInvocation(inv[i]) =>
                    ~IsDeleteInvocation(inv[j]) /\ inv[i].n < inv[j].n
        /\ Len(inv) <= Len(PlannedChannelOps)
        /\ \A i \in 1..Len(inv) :
             /\ inv[i].n = PlannedChannelOps[i]
             /\ IsDeleteInvocation(inv[i]) <=> i <= Len(diff.channels.deletes)
        /\ (ChannelsRecorded /\ report.sections["channels"].status # "error")
             => Len(inv) = Len(PlannedChannelOps)
        /\ {inv[i].n : i \in {k \in 1..Len(inv) : IsDeleteInvocation(inv[k])}}
             \subseteq ChanIndices(original.MeshChannels) \ ChanIndices(edited.MeshChannels)

(* A run that deleted channel 2, then channel 1, then set channel 0.       *)
C13_Witness ==
  /\ pc = "returned"
  /\ ChannelsRecorded
  /\ report.sections["channels"].status = "success"
  /\ Len(ChannelInvocations) = 3
  /\ IsDeleteInvocation(ChannelInvocations[1]) /\ ChannelInvocations[1].n = 2
  /\ IsDeleteInvocation(ChannelInvocations[2]) /\ ChannelInvocations[2].n = 1
  /\ ~IsDeleteInvocation(ChannelInvocations[3]) /\ ChannelInvocations[3].n = 0

ChannelEnds ==
  LET isEnd(e) == e.op = "cli_end" /\ e.sec = "channels"
  IN  SelectSeq(trace, isEnd)

StatusOfReturnCode(rc) ==
  IF rc = 0 THEN "success" ELSE IF rc = RC_TIMEOUT THEN "timeout" ELSE "error"

(* C14: inside the channels section the first invocation that fails, a     *)
(* timeout included, marks the section "error" and is the last channel     *)
(* invocation of the run; the entries of the earlier operations stay in    *)
(* the section result.                                                     *)
C14_ChannelsFailFast ==
  /\ \A k \in 1..Len(trace) :
       (trace[k].op = "cli_end" /\ trace[k].sec = "channels" /\ trace[k].n # 0) =>
         /\ \A j \in (k + 1)..Len(trace) :
              ~(trace[j].op = "cli_start" /\ trace[j].sec = "channels")
         /\ ChannelsRecorded
         /\ report.sections["channels"].status = "error"
  /\ ChannelsRecorded =>
       LET r == report.sections["channels"]
           entries == r.deleted \o r.upserts
       IN  /\ Len(entries) = Len(ChannelEnds)
           /\ Len(ChannelEnds) = Len(ChannelInvocations)
           /\ \A i \in 1..Len(entries) :
                /\ entries[i].index = ChannelInvocations[i].n
                /\ entries[i].status = StatusOfReturnCode(ChannelEnds[i].n)
                /\ i < Len(entries) => entries[i].status = "success"
           /\ r.status = "error" <=> \E i \in 1..Len(entries) : entries[i].status # "success"

(* A run whose first delete succeeded and whose second delete timed out:   *)
(* the upsert of the plan was never invoked and both entries are reported. *)
C14_Witness ==
  /\ pc = "returned"
  /\ ChannelsRecorded
  /\ report.sections["channels"].status = "error"
  /\ Len(PlannedChannelOps) = 3
  /\ Len(report.sections["channels"].deleted) = 2
  /\ report.sections["channels"].deleted[1].status = "success"
  /\ report.sections["channels"].deleted[2].status = "timeout"
  /\ report.sections["channels"].upserts = <<>>
  /\ Len(ChannelInvocations) = 2

(* C15 (checked under SpecExec): an executor called with an empty          *)
(* changeset (for channels: a plan without deletes and upserts) returns    *)
(* no_change, makes no invocation and does not raise.                      *)
C15_EmptyChangesetIsNoChange ==
  /\ pc # "exec_raised"
  /\ \A sec \in DOMAIN report.sections :
       (IF sec = "channels" THEN Len(PlannedChannelOps) = 0 ELSE diff[sec] = EmptyDict) =>
         /\ report.sections[sec].status = "no_change"
         /\ ~Started(sec)

(* C16: for every section, channels included, an invocation that timed out *)
(* gives the section the status "timeout", and the run halts there: the    *)
(* run's status is "error" and no further invocation is started.           *)
C16_TimeoutGivesSectionTimeout ==
  \A k \in 1..Len(trace) :
    (trace[k].op = "cli_end" /\ trace[k].n = RC_TIMEOUT) =>
      /\ trace[k].sec \in DOMAIN report.sections
      /\ report.sections[trace[k].sec].status = "timeout"
      /\ report.status = "error"
      /\ \A j \in (k + 1)..Len(trace) : trace[j].op # "cli_start"

DiffChanges(sec, key) == key \in DOMAIN diff[sec]

(* C17 (checked under SpecReboot): reboot_expected is true exactly when    *)
(* the diff changes device.role, lora.region, lora.modem_preset or         *)
(* bluetooth.enabled.                                                      *)
C17_RebootExpectedIffSuspectChanged ==
  pc = "loop" =>
    (reboot_expected <=>
       \/ DiffChanges("device", "device.role")
       \/ DiffChanges("lora", "lora.region")
       \/ DiffChanges("lora", "lora.modem_preset")
       \/ DiffChanges("bluetooth", "bluetooth.enabled"))

(* A diff of lora.tx_enabled and bluetooth.mode alone: no reboot expected. *)
C17_Witness ==
  /\ pc = "loop"
  /\ ~reboot_expected
  /\ DOMAIN diff.lora = {"lora.tx_enabled"}
  /\ DOMAIN diff.bluetooth = {"bluetooth.mode"}

SomeSectionSucceeded ==
  \E sec \in DOMAIN report.sections : report.sections[sec].status = "success"

(* C18: a run that got past its sections waits once, after the last        *)
(* invocation and before the reconnect, exactly when reboot_expected is    *)
(* true or some section succeeded; otherwise it does not wait.             *)
C18_SettleWaitIffRebootOrSuccess ==
  pc \in {"reconnect", "poll", "snapshot", "finally", "returned"} =>
    LET sleeps == {k \in 1..Len(trace) : trace[k].op = "sleep"}
    IN  /\ (sleeps # {}) <=> (reboot_expected \/ SomeSectionSucceeded)
        /\ Cardinality(sleeps) <= 1
        /\ \A k \in sleeps, j \in 1..Len(trace) :
             /\ trace[j].op \in {"cli_start", "cli_end"} => j < k
             /\ trace[j].op \in {"open", "open_failed", "config_ready", "config_failed",
                                 "snapshot", "snapshot_failed"} => k < j

(* The device section, whose role change makes a reboot expected, failed   *)
(* and nothing succeeded: the run still waited before the reconnect.       *)
C18_Witness ==
  /\ pc = "returned"
  /\ reboot_expected
  /\ ~SomeSectionSucceeded
  /\ "device" \in DOMAIN report.sections
  /\ report.sections["device"].status = "error"
  /\ \E k \in 1..Len(trace) :
       /\ trace[k].op = "sleep"
       /\ \E j \in (k + 1)..Len(trace) : trace[j].op = "open"

ReconnectOrSnapshotFailed ==
  \E k \in 1..Len(trace) : trace[k].op \in {"open_failed", "snapshot_failed"}

C19_ErrorAppended ==
  ReconnectOrSnapshotFailed =>
    /\ report.errors # <<>>
    /\ report.errors[Len(report.errors)] = "reconnect_or_snapshot"
    /\ \A sec \in {trace[k].sec : k \in {j \in 1..Len(trace) : trace[j].op = "cli_end"}} :
         sec \in DOMAIN report.sections

C19_SectionsKept ==
  pc \in {"reconnect", "poll", "snapshot"} =>
    /\ report'.sections = report.sections
    /\ \/ report'.errors = report.errors
       \/ report'.errors = Append(report.errors, "reconnect_or_snapshot")

(* C19: a failure of the reconnect or of the post-apply snapshot appends   *)
(* one reconnect_or_snapshot entry to the errors of the report, and no     *)
(* step of the reconnect and snapshot phase changes the section results.   *)
C19_ReconnectFailureKeepsSections ==
  [](C19_ErrorAppended) /\ [][C19_SectionsKept]_vars

(* The reopen failed after one section had succeeded and the next had      *)
(* failed: both results and both errors are in the returned report.        *)
C19_Witness ==
  /\ pc = "returned"
  /\ \E k \in 1..Len(trace) : trace[k].op = "open_failed"
  /\ SomeSectionSucceeded
  /\ \E sec \in DOMAIN report.sections : report.sections[sec].status = "error"
  /\ Len(report.errors) = 2
  /\ report.errors[2] = "reconnect_or_snapshot"

ConfigAttempts ==
  LET isAttempt(e) == e.op \in {"config_ready", "config_failed"}
  IN  SelectSeq(trace, isAttempt)

(* C20: after the reopen the readiness poll tries again only after a       *)
(* failed attempt, ends at the first success or when the window has        *)
(* elapsed, and a window that elapsed without a success is recorded in     *)
(* the errors of the report.                                               *)
C20_ElapsedPollWindowIsRecorded ==
  /\ Len(ConfigAttempts) <= MaxPoll
  /\ \A i \in 1..Len(ConfigAttempts) :
       i < Len(ConfigAttempts) => ConfigAttempts[i].op = "config_failed"
  /\ (pc = "snapshot") =>
       \/ ConfigAttempts[Len(ConfigAttempts)].op = "config_ready"
       \/ Len(ConfigAttempts) = MaxPoll
  /\ ( /\ pc \in {"finally", "returned"}
       /\ Len(ConfigAttempts) = MaxPoll
       /\ \A i \in 1..MaxPoll : ConfigAttempts[i].op = "config_failed" )
       => \E i \in 1..Len(report.errors) : report.errors[i] = "reconnect_or_snapshot"

SnapshotReads ==
  LET isRead(e) == e.op \in {"snapshot", "snapshot_failed"}
  IN  SelectSeq(trace, isRead)

(* C21: when the forced-refresh read after the reconnect fails, a second,  *)
(* non-forced read is attempted before the run gives up, and the report    *)
(* is returned without a snapshot only when both reads failed.             *)
C21_SnapshotFallbackBeforeGivingUp ==
  (pc = "returned" /\ SnapshotReads # <<>> /\ SnapshotReads[1].op = "snapshot_failed") =>
    /\ Len(SnapshotReads) >= 2
    /\ ~report.post_snapshot.set => \A i \in 1..Len(SnapshotReads) : SnapshotReads[i].op = "snapshot_failed"

ArgumentMasks == {<<"<redacted>">>, <<"base64:<redacted>">>}

(* In the logged argument list the value of every pair opt key is a mask   *)
(* (the literal default of a channel key is no key value).                 *)
PairValueMasked(logged, opt, key) ==
  \A i \in 1..Len(logged) :
    (logged[i] = <<opt>> /\ i + 2 <= Len(logged) /\ logged[i + 1] = <<key>>) =>
      logged[i + 2] \in ArgumentMasks \cup {<<"default">>}

(* C23: in every log record of an invocation's argument list the value     *)
(* after --ch-set psk and the value after --set network.wifi_psk are       *)
(* replaced by a mask.                                                     *)
C23_LoggedArgumentsHidePsk ==
  \A k \in 1..Len(trace) :
    (trace[k].op \in {"log", "log_debug"} /\ trace[k].sec # "updates") =>
      /\ PairValueMasked(trace[k].args, "--ch-set", "psk")
      /\ PairValueMasked(trace[k].args, "--set", "network.wifi_psk")

(* Every dict of v, at any depth, has the marker under each secret key.    *)
RECURSIVE SecretsMasked(_)
SecretsMasked(v) ==
  CASE v.k = "list" -> \A i \in 1..Len(v.s) : SecretsMasked(v.s[i])
    [] v.k = "dict" ->
         \A i \in 1..Len(v.s) :
           IF v.s[i].key \in _REDACT_KEYS THEN v.s[i].val = REDACTED
           ELSE SecretsMasked(v.s[i].val)
    [] OTHER -> TRUE

(* The secret keys of v that are not inside the value of a secret key.     *)
RECURSIVE SecretKeyCount(_)
SecretKeyCount(v) ==
  LET RECURSIVE sum(_)
      sum(seq) ==
        IF seq = <<>> THEN 0
        ELSE sum(Tail(seq))
             + (CASE v.k = "list" -> SecretKeyCount(Head(seq))
                  [] Head(seq).key \in _REDACT_KEYS -> 1
                  [] OTHER -> SecretKeyCount(Head(seq).val))
  IN  IF v.k \in {"list", "dict"} THEN sum(v.s) ELSE 0

(* C24 (checked under SpecRedact): redaction puts the fixed marker under   *)
(* every key of the secret-key set, in every dict of the structure, drops  *)
(* none of these keys, and redacting its result again changes nothing.     *)
C24_RedactMasksAndIsIdempotent ==
  /\ pc \in {"redacted", "redacted_twice"} =>
       /\ SecretsMasked(trace[1].args)
       /\ SecretKeyCount(trace[1].args) = SecretKeyCount(diff)
  /\ pc = "redacted_twice" => trace[2].args = trace[1].args

(* A dict whose plain key holds a list of a dict with a secret key and an  *)
(* empty text: redacted twice, the secret is masked and the text dropped.  *)
C24_Witness ==
  /\ pc = "redacted_twice"
  /\ diff = PyDict(<<Pair("name",
                          PyList(<<PyDict(<<Pair("psk", PyInt(0))>>), PyStr(<<>>)>>))>>)
  /\ trace[2].args = PyDict(<<Pair("name", PyList(<<PyDict(<<Pair("psk", REDACTED)>>)>>))>>)

Invocations ==
  LET isStart(e) == e.op = "cli_start"
  IN  SelectSeq(trace, isStart)

(* Two invocations of one section, or of one delete or one upsert of the   *)
(* channel plan.                                                           *)
SameOperation(a, b) ==
  /\ a.sec = b.sec
  /\ a.sec = "channels" => (a.n = b.n /\ (IsDeleteInvocation(a) <=> IsDeleteInvocation(b)))

(* C25: a run never ends with an exception at the caller; the report it    *)
(* returns holds status, sections and errors; and no section, delete or    *)
(* upsert is invoked more than once in a run.                              *)
C25_RunReturnsCompleteReportOnce ==
  /\ pc # "raised"
  /\ pc = "returned" =>
       /\ {"status", "sections", "errors"} \subseteq report.keys
       /\ report.status \in {"ok", "error", "no_change"}
  /\ \A i, j \in 1..Len(Invocations) : i < j => ~SameOperation(Invocations[i], Invocations[j])

(* The channel executor ran its whole plan and every invocation returned 0.*)
ChannelPlanExecuted ==
  /\ pc \notin {"ch_loop", "ch_cli"}
  /\ ChannelsRecorded
  /\ report.sections["channels"].status \in {"success", "no_change"}

(* The device's table as a channel list in index order.                    *)
DeviceChannels ==
  LET table == ChannelTable(Len(trace))
      order == SortedAsc(DOMAIN table)
  IN  [i \in 1..Len(order) |-> table[order[i]]]

(* C26: once the whole channel plan has been executed against a device     *)
(* that held the original channels, the device holds a channel at exactly  *)
(* the indices of the edited list and diffing the device's channels        *)
(* against the edited list gives an empty plan.                            *)
C26_ExecutedPlanReachesEditedChannels ==
  ChannelPlanExecuted =>
    /\ {ChIndex(DeviceChannels[i]) : i \in DOMAIN DeviceChannels}
         = {ChIndex(edited.MeshChannels[i]) : i \in DOMAIN edited.MeshChannels}
    /\ _diff_channels(DeviceChannels, edited.MeshChannels) = [deletes |-> <<>>, upserts |-> <<>>]

InBothLists(idx) ==
  /\ \E i \in DOMAIN original.MeshChannels : ChIndex(original.MeshChannels[i]) = idx
  /\ \E i \in DOMAIN edited.MeshChannels : ChIndex(edited.MeshChannels[i]) = idx

(* C27: every upsert invocation names its channel by --ch-index and the    *)
(* upsert's index; in particular the upsert of an index that both lists    *)
(* hold is never an addition of a channel.                                 *)
C27_UpsertAddressesItsIndex ==
  \A i \in 1..Len(ChannelInvocations) :
    LET e == ChannelInvocations[i]
    IN  ~IsDeleteInvocation(e) =>
          /\ SubSeq(e.args, 1, 2) = <<(<<"--ch-index">>), Digits(e.n)>>
          /\ InBothLists(e.n) => e.args[1] # <<"--ch-add">>

(* The run has returned after an invocation that failed.                   *)
ReturnedAfterFailure ==
  /\ pc = "returned"
  /\ \E k \in 1..Len(trace) : trace[k].op = "cli_end" /\ trace[k].n # 0

FailedAt == CHOOSE k \in 1..Len(trace) : trace[k].op = "cli_end" /\ trace[k].n # 0

EventsAfterFailure(ops) == {j \in (FailedAt + 1)..Len(trace) : trace[j].op \in ops}

(* After the failed invocation nothing is invoked, one reconnect is        *)
(* attempted and the run ends with the detach.                             *)
TailAfterFailure ==
  /\ EventsAfterFailure({"cli_start", "cli_end"}) = {}
  /\ Cardinality(EventsAfterFailure({"open", "open_failed"})) = 1
  /\ Cardinality(EventsAfterFailure({"snapshot", "snapshot_failed"})) <= 1
  /\ EventsAfterFailure({"detach"}) = {Len(trace)}
  /\ \A r \in EventsAfterFailure({"open", "open_failed"}) :
       \A s \in EventsAfterFailure({"snapshot", "snapshot_failed"}) : r < s /\ s < Len(trace)

(* C30 as stated: a run that returns after a failed section has attempted  *)
(* the reconnect, read the post-apply snapshot and detached, in that       *)
(* order, and invoked nothing after the failure.                           *)
C30_AbortStillReconnectsSnapshotsDetaches ==
  ReturnedAfterFailure =>
    /\ TailAfterFailure
    /\ EventsAfterFailure({"snapshot", "snapshot_failed"}) # {}

(* C30, amended: the snapshot is read exactly when the reconnect opened    *)
(* the port; a reconnect that fails is followed by the detach alone.       *)
C30_AbortStillReconnectsThenDetaches ==
  ReturnedAfterFailure =>
    /\ TailAfterFailure
    /\ (EventsAfterFailure({"snapshot", "snapshot_failed"}) # {})
         = (EventsAfterFailure({"open"}) # {})

C30_Witness ==
  /\ ReturnedAfterFailure
  /\ report.status = "error"
  /\ EventsAfterFailure({"open"}) # {}
  /\ EventsAfterFailure({"snapshot"}) # {}
  /\ DOMAIN report.sections # {}

(* C31: a returned report with a non-empty errors list has status error;   *)
(* any other status comes with an empty errors list.                       *)
C31_ErrorsImplyErrorStatus ==
  pc = "returned" =>
    /\ report.errors # <<>> => report.status = "error"
    /\ report.status # "error" => report.errors = <<>>

(* The status a section gets from the outcome of its invocation; the       *)
(* channel executor reports every failure as error.                        *)
StatusOfOutcome(sec, outcome) ==
  IF outcome = "exit 0" THEN "success"
  ELSE IF outcome = "TimeoutExpired" /\ sec # "channels" THEN "timeout"
  ELSE "error"

(* C32 (checked under SpecExec): an invocation that timed out, found no    *)
(* executable or met another fault returns a non-zero status (124, 127,    *)
(* 1); the section recorded after it has the status that outcome converts  *)
(* to; and no executor raises on a non-empty changeset.                    *)
C32_ToolFailuresBecomeSectionStatus ==
  /\ \A k \in 1..Len(trace) :
       trace[k].op = "cli_end" =>
         LET outcome == trace[k].args[1]
         IN  /\ outcome # "exit 0" => trace[k].n # 0
             /\ outcome = "TimeoutExpired" => trace[k].n = RC_TIMEOUT
             /\ outcome = "FileNotFoundError" => trace[k].n = RC_NOT_FOUND
             /\ (k = Len(trace) /\ trace[k].sec \in DOMAIN report.sections) =>
                  report.sections[trace[k].sec].status = StatusOfOutcome(trace[k].sec, outcome)
  /\ pc = "exec_raised" => ~Truthy(diff[Section])

C32_Witness ==
  /\ trace # <<>>
  /\ trace[Len(trace)].op = "cli_end"
  /\ trace[Len(trace)].args = <<"Exception">>
  /\ trace[Len(trace)].sec \in DOMAIN report.sections
  /\ report.sections[trace[Len(trace)].sec].status = "error"
  /\ report.status = "error"

(* The plan an apply holds is the computed one, less the names its         *)
(* add-with-name invocations have popped.                                  *)
PlanLessPoppedNames(held, computed) ==
  /\ held.deletes = computed.deletes
  /\ Len(held.upserts) = Len(computed.upserts)
  /\ \A u \in 1..Len(computed.upserts) :
       /\ held.upserts[u].index = computed.upserts[u].index
       /\ held.upserts[u].fields \in
            {computed.upserts[u].fields, ch_fields_after_pop(computed.upserts[u])}

DiffRecomputed == _build_diff(original, edited)

ChangedSections == {sec \in DOMAIN diff \ {"channels"} : Truthy(diff[sec])}

PlanEmpty == NumChannelOps = 0

(* C34: a returned run whose diff has exactly one non-channel section with *)
(* a non-empty changeset and an empty channel plan has issued exactly one  *)
(* invocation, for that section; and at every point of a run each          *)
(* invocation issued belongs to a section whose changeset is not empty, or *)
(* to the channel section with a plan that is not empty.                   *)
C34_OneChangedSectionOneInvocation ==
  /\ (pc = "returned" /\ Cardinality(ChangedSections) = 1 /\ PlanEmpty)
       => /\ Len(Invocations) = 1
          /\ Invocations[1].sec \in ChangedSections
  /\ \A i \in 1..Len(Invocations) :
       \/ Invocations[i].sec \in ChangedSections
       \/ Invocations[i].sec = "channels" /\ ~PlanEmpty

(* A run with one changed section and an empty plan has returned; the      *)
(* other nine sections were passed over or ran no invocation.              *)
C34_Witness ==
  /\ pc = "returned"
  /\ Cardinality(ChangedSections) = 1
  /\ PlanEmpty
  /\ Len(Invocations) = 1
  /\ "channels" \in DOMAIN report.sections

(* The sections executed by _exec_generic.                                 *)
GenericExecutors == {"lora", "power", "position", "display", "bluetooth", "network", "modules"}

(* The invocations of the run made by _exec_generic.                       *)
GenericInvocations ==
  LET isGeneric(e) == e.op = "cli_start" /\ e.sec \in GenericExecutors
  IN  SelectSeq(trace, isGeneric)

(* args is one --set <key> <value> triple per key of changes, the keys in  *)
(* ascending order, a boolean value as the text true or false.             *)
SetPerFieldSorted(args, changes) ==
  LET n == Cardinality(DOMAIN changes)
      rank(key) == CHOOSE r \in 1..Len(KEY_ORDER) : KEY_ORDER[r] = key
      keyAt(i) == args[3 * i - 1][1]
  IN  /\ Len(args) = 3 * n
      /\ \A i \in 1..n : args[3 * i - 2] = <<"--set">> /\ Len(args[3 * i - 1]) = 1
      /\ \A key \in DOMAIN changes : Cardinality({i \in 1..n : keyAt(i) = key}) = 1
      /\ \A i \in 1..n : \A j \in (i + 1)..n : rank(keyAt(i)) < rank(keyAt(j))
      /\ \A i \in 1..n :
           changes[keyAt(i)].k = "bool" =>
             args[3 * i] = (IF changes[keyAt(i)].n = 1 THEN <<"true">> ELSE <<"false">>)

(* C35: every invocation made for a generic section carries exactly one    *)
(* --set <key> <value> triple per field of the section's changeset, the    *)
(* triples in ascending order of the key, and a boolean value as the       *)
(* lowercase text true or false.                                           *)
C35_GenericArgsOneSetPerFieldSorted ==
  \A i \in 1..Len(GenericInvocations) :
    SetPerFieldSorted(GenericInvocations[i].args, diff[GenericInvocations[i].sec])

(* A generic invocation with three fields, one of them a boolean, has been *)
(* made.                                                                   *)
C35_Witness ==
  \E i \in 1..Len(GenericInvocations) :
    /\ Len(GenericInvocations[i].args) = 9
    /\ \E key \in DOMAIN diff[GenericInvocations[i].sec] :
         diff[GenericInvocations[i].sec][key].k = "bool"

(* The positions of args at which a --ch-set of key begins.                *)
ChSetsOf(args, key) ==
  {p \in 1..(Len(args) - 2) : args[p] = <<"--ch-set">> /\ args[p + 1] = <<key>>}

(* args is the invocation of an upsert of fields at index idx in the form  *)
(* the executor is to use.                                                 *)
UpsertForm(args, idx, fields) ==
  /\ IF idx # 0 /\ "name" \in DOMAIN fields
     THEN /\ args[1] = <<"--ch-add">>
          /\ args[2] = fields["name"].s
          /\ ChSetsOf(args, "name") = {}
          /\ \A p \in 1..Len(args) : args[p] # <<"--ch-index">>
     ELSE /\ args[1] = <<"--ch-index">>
          /\ args[2] = Digits(idx)
          /\ \A p \in 1..Len(args) : args[p] # <<"--ch-add">>
  /\ "psk" \in DOMAIN fields =>
       /\ Cardinality(ChSetsOf(args, "psk")) = 1
       /\ \A p \in ChSetsOf(args, "psk") :
            args[p + 2] = (IF fields["psk"].s = <<"default">> THEN <<"default">>
                           ELSE <<"base64:">> \o fields["psk"].s)

(* The started invocations of the channel section that are upserts.        *)
UpsertInvocations ==
  LET isUpsert(e) == e.op = "cli_start" /\ e.sec = "channels" /\ e.args # ch_del_args(e.n)
  IN  SelectSeq(trace, isUpsert)

(* C36: the invocation of every upsert of the plan uses --ch-add <name>    *)
(* without a --ch-set name when the index is not zero and the fields       *)
(* computed for it include name, and --ch-index <idx> otherwise; a psk     *)
(* field is set once, to the text default when that is its value and to    *)
(* base64: followed by the value otherwise.                                *)
C36_UpsertFormAndPskEncoding ==
  \A plan \in {_diff_channels(original.MeshChannels, edited.MeshChannels)} :
    \A i \in 1..Len(UpsertInvocations) :
      \E u \in 1..Len(plan.upserts) :
        /\ plan.upserts[u].index = UpsertInvocations[i].n
        /\ UpsertForm(UpsertInvocations[i].args, plan.upserts[u].index, plan.upserts[u].fields)

(* One run has set name and a default psk on channel 0 by index and added  *)
(* a named channel with an explicit key.                                   *)
C36_Witness ==
  /\ \E i \in 1..Len(UpsertInvocations) :
       /\ UpsertInvocations[i].args[1] = <<"--ch-index">>
       /\ ChSetsOf(UpsertInvocations[i].args, "name") # {}
       /\ \E p \in ChSetsOf(UpsertInvocations[i].args, "psk") :
            UpsertInvocations[i].args[p + 2] = <<"default">>
  /\ \E i \in 1..Len(UpsertInvocations) :
       /\ UpsertInvocations[i].args[1] = <<"--ch-add">>
       /\ \E p \in ChSetsOf(UpsertInvocations[i].args, "psk") :
            UpsertInvocations[i].args[p + 2][1] = "base64:"

(* The fields of the upsert of index idx, the empty dict when the plan has *)
(* no upsert for it.                                                       *)
UpsertFieldsAt(idx) ==
  LET ups == {u \in 1..Len(diff.channels.upserts) : diff.channels.upserts[u].index = idx}
  IN  IF ups = {} THEN EmptyDict ELSE diff.channels.upserts[CHOOSE u \in ups : TRUE].fields

(* None, the empty and the blank text as one absent value; any other text  *)
(* as it is.                                                               *)
AbsentIfBlank(v) == IF v = None \/ Strip(v.s) = <<>> THEN None ELSE v

(* The same, with the white space around any other text removed.           *)
AbsentIfBlankElseStripped(v) == IF v = None \/ Strip(v.s) = <<>> THEN None ELSE PyStr(Strip(v.s))

(* psk is among the fields of every edited index exactly when the two keys *)
(* differ under norm, and then holds the edited key under norm, or default.*)
PskWrittenIffChanged(norm(_)) ==
  pc = "diffed" =>
    \A idx \in ChanIndices(edited.MeshChannels) :
      LET psk_o == norm(Get(GetDict(by_idx(original.MeshChannels), idx), "psk"))
          psk_e == norm(Get(by_idx(edited.MeshChannels)[idx], "psk"))
          fields == UpsertFieldsAt(idx)
      IN  /\ ("psk" \in DOMAIN fields) <=> (psk_o # psk_e)
          /\ "psk" \in DOMAIN fields =>
               fields["psk"] = (IF psk_e = None THEN PyStr(<<"default">>) ELSE psk_e)

(* C37 as stated: psk is in the upsert of an edited index if and only if   *)
(* the original and the edited psk differ once None, the empty and the     *)
(* blank text count as one absent value, and its value is then the edited  *)
(* psk, or default when that is absent.                                    *)
C37_PskWrittenIffDiffersModuloAbsent == PskWrittenIffChanged(AbsentIfBlank)

(* C37, amended: psk is in the upsert of an edited index if and only if    *)
(* the original and the edited psk differ once the white space around each *)
(* is removed and None, the empty and the blank text count as one absent   *)
(* value; its value is then the edited psk without the white space around  *)
(* it, or default when the edited psk is absent.                           *)
C37_PskWrittenIffDiffersStripped == PskWrittenIffChanged(AbsentIfBlankElseStripped)

(* A plan that writes the stripped edited key on one index and default for *)
(* a blank edited key on another.                                          *)
C37_Witness ==
  /\ pc = "diffed"
  /\ \E idx \in ChanIndices(edited.MeshChannels) :
       /\ "psk" \in DOMAIN UpsertFieldsAt(idx)
       /\ UpsertFieldsAt(idx)["psk"] = PyStr(<<"k">>)
       /\ Get(by_idx(edited.MeshChannels)[idx], "psk") = PyStr(<<"k", " ">>)
  /\ \E idx \in ChanIndices(edited.MeshChannels) :
       /\ Get(by_idx(edited.MeshChannels)[idx], "psk") = PyStr(<<" ">>)
       /\ "psk" \in DOMAIN UpsertFieldsAt(idx)
       /\ UpsertFieldsAt(idx)["psk"] = PyStr(<<"default">>)

(* A string without the white space around it; any other value as it is.   *)
Stripped(v) == IF v.k = "str" THEN PyStr(Strip(v.s)) ELSE v

AsGiven(v) == v

(* Every module field follows the three rules, the edited and the original *)
(* value compared under norm.                                              *)
ModuleFieldRules(norm(_)) ==
  pc = "diffed" =>
    \A m \in 1..Len(MODULE_MAPS) : \A j \in 1..Len(MODULE_MAPS[m][2]) :
      LET ov == Get(GetDict(original.ModuleConfig, MODULE_MAPS[m][1]), MODULE_MAPS[m][2][j][1])
          ev == Get(GetDict(edited.ModuleConfig, MODULE_MAPS[m][1]), MODULE_MAPS[m][2][j][1])
          written == MODULE_MAPS[m][2][j][2] \in DOMAIN diff.modules
          blank == ev = None \/ (ev.k = "str" /\ Strip(ev.s) = <<>>)
      IN  /\ (ev = False /\ ov = None) => ~written
          /\ blank => ~written
          /\ (~blank /\ ~(ev = False /\ ov = None)) => (written <=> ~PyEq(norm(ov), norm(ev)))
          /\ written => diff.modules[MODULE_MAPS[m][2][j][2]] = norm(ev)

(* C38 as stated: a module field whose edited value is False with an       *)
(* absent original is not written, a blank or absent edited value is not   *)
(* written, and any other edited value is written if and only if it        *)
(* differs from the original value.                                        *)
C38_ModuleFieldWrittenIffDiffers == ModuleFieldRules(AsGiven)

(* C38, amended: the same three rules with the comparison made, and the    *)
(* value written, after the white space around a string is removed.        *)
C38_ModuleFieldWrittenIffDiffersStripped == ModuleFieldRules(Stripped)

(* A diff that leaves out a False whose original is absent and writes      *)
(* another module field of the same edited snapshot.                       *)
C38_Witness ==
  /\ pc = "diffed"
  /\ original.ModuleConfig = EmptyDict
  /\ Get(GetDict(edited.ModuleConfig, "mqtt"), "enabled") = False
  /\ DOMAIN diff.modules = {"serial.rxd"}

---------------------------------------------------------------------------
(* Properties of the application (checked under SpecUI).                   *)

ThreadRunning(w) ==
  \/ workers[w].kind = "detect" /\ workers[w].at \in {"start", "fetch"}
  \/ workers[w].kind = "apply" /\
       workers[w].at \in {"start", "open", "detached", "cli", "reconnect", "reconnected",
                          "returned", "no_change"}

(* C5: at most one worker holds the transport (an open interface or a      *)
(* running invocation), and no detect or apply worker started after an     *)
(* apply worker runs while that apply worker is still running.             *)
C5_OneWorkerOnTransport ==
  /\ Cardinality({w \in DOMAIN workers : workers[w].holds # "none"}) <= 1
  /\ \A a, w \in DOMAIN workers :
       (a < w /\ workers[a].kind = "apply" /\ ThreadRunning(a)) => ~ThreadRunning(w)

(* The step ends the channel refresh of worker w and leaves the window     *)
(* ready: not busy (Detect / Connect enabled) and Apply enabled.           *)
RefreshDeclaresReady(w) ==
  /\ workers[w].at \in {"tick_wait", "tick_open"}
  /\ workers'[w].at = "done"
  /\ btn_detect = "disabled"
  /\ btn_detect' = "normal"
  /\ btn_apply' = "normal"

(* C28: the channel refresh that follows a successful apply declares the   *)
(* window ready only in a step in which its snapshot held channels.        *)
C28_ReadyOnlyAfterChannelsRead ==
  [][\A w \in DOMAIN workers : RefreshDeclaresReady(w) => workers'[w].has_channels]_vars

Busy == btn_detect = "disabled"

(* C29: a tick of the channel refresh starts only while fewer than 8       *)
(* attempts have been counted, so at most 8 snapshots are read; and a busy *)
(* window always becomes not busy again, whatever is clicked meanwhile.    *)
C29_RefreshBoundedAndBusyEnds ==
  /\ [](\A w \in DOMAIN workers :
          /\ workers[w].attempt <= max_attempts
          /\ workers[w].at \in {"tick_wait", "tick_open"} => workers[w].attempt < max_attempts)
  /\ (Busy ~> ~Busy)

---------------------------------------------------------------------------
(* Properties of the channels panel (checked under SpecPanel).             *)

LiveRows == {p \in DOMAIN _channel_frames : _channel_frames[p].exists}

(* The index the claim gives a row: 0 to the primary row, to a secondary   *)
(* row its rank among the secondary rows by the index it had.              *)
RenumberedIndex(p) ==
  IF _channel_frames[p].index = 0 THEN 0
  ELSE Cardinality({q \in LiveRows : /\ _channel_frames[q].index # 0
                                      /\ _channel_frames[q].index <= _channel_frames[p].index})

(* C39: in the channel list collected from the panel, each row appears     *)
(* once; the primary row has index 0; the N secondary rows have the        *)
(* indices 1..N, each once, the row with the smaller previous index the    *)
(* smaller new one; and the list is in ascending order of the new indices. *)
C39_CollectRenumbersSecondaries ==
  pc = "collected" =>
    LET out == edited.MeshChannels
        secondaries == {i \in DOMAIN out : ChIndex(out[i]) # 0}
    IN  /\ Len(out) = Cardinality(LiveRows)
        /\ {ChIndex(out[i]) : i \in secondaries} = 1..Cardinality(secondaries)
        /\ \A i, j \in DOMAIN out : i < j => ChIndex(out[i]) < ChIndex(out[j])
        /\ \A p \in LiveRows :
             \E i \in DOMAIN out :
               /\ ChIndex(out[i]) = RenumberedIndex(p)
               /\ Get(out[i], "name") = (IF Strip(_channel_frames[p].name_var) = <<>> THEN None
                                         ELSE PyStr(Strip(_channel_frames[p].name_var)))

(* Rows 0, 2 and 3 were collected as 0, 1 and 2, the row that was 3 with   *)
(* its own name.                                                           *)
C39_Witness ==
  /\ pc = "collected"
  /\ {_channel_frames[p].index : p \in LiveRows} = {0, 2, 3}
  /\ ChanIndices(edited.MeshChannels) = {0, 1, 2}
  /\ \E p \in LiveRows :
       /\ _channel_frames[p].index = 3
       /\ _channel_frames[p].name_var = <<"B">>
       /\ Get(edited.MeshChannels[3], "name") = PyStr(<<"B">>)
  /\ Get(edited.MeshChannels[2], "name") # PyStr(<<"B">>)

====
